---- MODULE Spec2Model ----
(***************************************************************************)
(* Spotify Controls (GNOME Shell extension): the SpotifyIndicator's MPRIS  *)
(* presence-and-state synchronisation, in its two revisions:               *)
(*   "retry" - src/unnamed/part_000 lines 61-523 (subscribe first, then    *)
(*             fetch PlaybackStatus, then Metadata with a bounded retry);  *)
(*   "ext"   - src/extension.js lines 86-417 (fetch both, then subscribe). *)
(* and the extension object around it (enable, disable, the placement in   *)
(* the panel) and the click that opens the window of Spotify.              *)
(* Strings that the code formats or trims are sequences of characters.     *)
(***************************************************************************)
EXTENDS Integers, Sequences, FiniteSets, TLC

\* Number of name-appeared callbacks (hence _onSpotifyAppeared coroutines) explored.
MaxAppeared == 2

\* Calls of signal_unsubscribe / unwatch_name on one id are counted up to this.
MaxCounted == 2

\* Method calls of _sendMPRISCommand that await their reply at one time.
MaxCalls == 1

\* PropertiesChanged signals on their way from the bus to the shell at one time.
MaxSignals == 2

\* _retryFetchMetadata(retries = 3, delay = 500)
retries == 3

MPRIS_PLAYER_INTERFACE == "org.mpris.MediaPlayer2.Player"

\* The other interface of the same object that emits PropertiesChanged.
MPRIS_ROOT_INTERFACE == "org.mpris.MediaPlayer2"

(***************************************************************************)
(* JavaScript values, as deep_unpack() hands them to the code.             *)
(***************************************************************************)
JsUndefined == [type |-> "undefined"]

JsString(s) == [type |-> "string", chars |-> s]

JsNumber(n) == [type |-> "number", num |-> n]

JsArray(a) == [type |-> "array", items |-> a]

\* ToBoolean: what `if (v)`, `v && ...` and `!v` see.
Truthy(v) ==
    CASE v.type = "undefined" -> FALSE
      [] v.type = "string" -> v.chars # <<>>
      [] v.type = "number" -> v.num # 0
      [] OTHER -> TRUE

RECURSIVE TrimStart(_)
TrimStart(s) ==
    IF s # <<>> /\ Head(s) = " " THEN TrimStart(Tail(s)) ELSE s

RECURSIVE TrimEnd(_)
TrimEnd(s) ==
    IF s # <<>> /\ s[Len(s)] = " " THEN TrimEnd(SubSeq(s, 1, Len(s) - 1)) ELSE s

\* String.prototype.trim
Trim(s) == TrimEnd(TrimStart(s))

Digit(d) == <<"0", "1", "2", "3", "4", "5", "6", "7", "8", "9">>[d + 1]

RECURSIVE NumberToString(_)
NumberToString(n) ==
    IF n < 10 THEN <<Digit(n)>> ELSE NumberToString(n \div 10) \o <<Digit(n % 10)>>

\* What a template literal `${v}` yields for the values of the model.
RECURSIVE JsToString(_)
JsToString(v) ==
    CASE v.type = "string" -> v.chars
      [] v.type = "number" -> NumberToString(v.num)
      [] v.type = "undefined" -> <<"u", "n", "d", "e", "f", "i", "n", "e", "d">>
      [] OTHER ->
            IF v.items = <<>> THEN <<>>
            ELSE IF Len(v.items) = 1 THEN JsToString(v.items[1])
            ELSE JsToString(v.items[1]) \o <<",">> \o JsToString(JsArray(Tail(v.items)))

NoTrackPlaying ==
    <<"N", "o", " ", "T", "r", "a", "c", "k", " ", "P", "l", "a", "y", "i", "n", "g">>

UnknownArtist ==
    <<"U", "n", "k", "n", "o", "w", "n", " ", "A", "r", "t", "i", "s", "t">>

UnknownTitle ==
    <<"U", "n", "k", "n", "o", "w", "n", " ", "T", "i", "t", "l", "e">>

\* `${artist} - ${title}`
TrackText(artist, title) == artist \o <<" ", "-", " ">> \o title

(***************************************************************************)
(* Pure helpers of SpotifyIndicator.                                       *)
(***************************************************************************)

\* _updatePlayPauseIcon with the two icon names swapped.
_updatePlayPauseIcon_swapped(playbackStatus) ==
    IF playbackStatus = "Playing"
    THEN "media-playback-start-symbolic"
    ELSE "media-playback-pause-symbolic"

\* _updatePlayPauseIcon showing the pause icon for every status but 'Stopped'.
_updatePlayPauseIcon_unlessStopped(playbackStatus) ==
    IF playbackStatus # "Stopped"
    THEN "media-playback-pause-symbolic"
    ELSE "media-playback-start-symbolic"

\* _updatePlayPauseIcon: the icon name chosen for a playback status.
_updatePlayPauseIcon(playbackStatus) ==
    IF playbackStatus = "Playing"
    THEN "media-playback-pause-symbolic"
    ELSE "media-playback-start-symbolic"

\* artistArray[0].trim() / title.trim() raise a TypeError on a non-string.
HasTrim(v) == v.type = "string"

\* _updateTrackInfo with `title.trim()` called before title is tested.
_updateTrackInfo_noTitleTest(metadata) ==
    LET artistArray == metadata.artist
        title == metadata.title
        artistLooked == artistArray.type = "array" /\ Len(artistArray.items) > 0
        artistThrows == artistLooked /\ ~HasTrim(artistArray.items[1])
        artist == IF artistLooked /\ ~artistThrows
                     /\ Trim(artistArray.items[1].chars) # <<>>
                  THEN artistArray.items[1].chars
                  ELSE UnknownArtist
        titleThrows == ~HasTrim(title)
        titleText == IF ~titleThrows /\ Trim(title.chars) # <<>>
                     THEN title.chars
                     ELSE UnknownTitle
    IN  IF artistThrows \/ titleThrows
        THEN [threw |-> TRUE, text |-> <<>>]
        ELSE [threw |-> FALSE, text |-> TrackText(artist, titleText)]

\* _updateTrackInfo of the retry revision: the text it would assign to
\* trackLabel.text, or threw = TRUE when it raises before assigning.
_updateTrackInfo(metadata) ==
    LET artistArray == metadata.artist
        title == metadata.title
        artistLooked == artistArray.type = "array" /\ Len(artistArray.items) > 0
        artistThrows == artistLooked /\ ~HasTrim(artistArray.items[1])
        artist == IF artistLooked /\ ~artistThrows
                     /\ Trim(artistArray.items[1].chars) # <<>>
                  THEN artistArray.items[1].chars
                  ELSE UnknownArtist
        titleThrows == Truthy(title) /\ ~HasTrim(title)
        titleText == IF Truthy(title) /\ ~titleThrows /\ Trim(title.chars) # <<>>
                     THEN title.chars
                     ELSE UnknownTitle
    IN  IF artistThrows \/ titleThrows
        THEN [threw |-> TRUE, text |-> <<>>]
        ELSE [threw |-> FALSE, text |-> TrackText(artist, titleText)]

\* _updateTrackInfo of src/extension.js: no trim, the first element and the
\* title go into the template literal as they are.
Ext_updateTrackInfo(metadata) ==
    LET artistArray == metadata.artist
        title == metadata.title
        artist == IF artistArray.type = "array" /\ Len(artistArray.items) > 0
                  THEN JsToString(artistArray.items[1])
                  ELSE UnknownArtist
        titleText == IF ~Truthy(title) THEN UnknownTitle ELSE JsToString(title)
    IN  [threw |-> FALSE, text |-> TrackText(artist, titleText)]

\* The acceptance condition with || in place of &&.
MetadataIsValid_either(metadata) == Truthy(metadata.artist) \/ Truthy(metadata.title)

\* The condition under which _retryFetchMetadata accepts an attempt.
MetadataIsValid(metadata) == Truthy(metadata.artist) /\ Truthy(metadata.title)

(***************************************************************************)
(* What the bus can deliver.                                               *)
(***************************************************************************)
PlaybackStatusValues == {"Playing", "Paused", "Stopped"}

Metadata(artist, title) == [artist |-> artist, title |-> title]

TwoArtists == JsArray(<<JsString(<<"A">>), JsString(<<"B">>)>>)

FullTrack == Metadata(TwoArtists, JsString(<<"T">>))

\* metadata['xesam:artist'] and metadata['xesam:title'] of the unpacked
\* mappings the player is taken to send (JsUndefined: the key is missing).
MetadataValues ==
    { Metadata(JsUndefined, JsUndefined),
      FullTrack,
      Metadata(JsArray(<<>>), JsString(<<"T">>)),
      Metadata(JsArray(<<JsString(<<>>)>>), JsString(<<"T">>)),
      Metadata(JsArray(<<JsString(<<" ">>)>>), JsString(<<"T">>)),
      Metadata(JsUndefined, JsString(<<"T">>)),
      Metadata(TwoArtists, JsUndefined),
      Metadata(TwoArtists, JsString(<<>>)),
      Metadata(JsArray(<<JsNumber(7)>>), JsString(<<"T">>)),
      Metadata(TwoArtists, JsNumber(7)) }

EmptyMetadata == [artist |-> JsUndefined, title |-> JsUndefined]

\* The result of a Properties.Get call: a value, or call_finish raising.
Ok(v) == [ok |-> TRUE, value |-> v]

Failed(v) == [ok |-> FALSE, value |-> v]

PlaybackStatusReplies == {Ok(s) : s \in PlaybackStatusValues} \cup {Failed("")}

MetadataReplies == {Ok(m) : m \in MetadataValues} \cup {Failed(EmptyMetadata)}

\* A PropertiesChanged signal: the interface argument and changedProps.
Signal(iface, props, status, metadata) ==
    [iface |-> iface, props |-> props, PlaybackStatus |-> status, Metadata |-> metadata]

\* Signals of one interface: changedProps with one of the two properties (any
\* of `statuses`, any of `metadatas`), or with both (any of `bothStatuses` with
\* any of `bothMetadatas`).
SignalsOf(iface, statuses, metadatas, bothStatuses, bothMetadatas) ==
    { Signal(iface, {"PlaybackStatus"}, st, EmptyMetadata) : st \in statuses }
    \cup { Signal(iface, {"Metadata"}, "", m) : m \in metadatas }
    \cup { Signal(iface, {"PlaybackStatus", "Metadata"}, st, m) :
             st \in bothStatuses, m \in bothMetadatas }

\* The signals of the player interface, and a few of the root interface.
Signals ==
    { Signal(MPRIS_PLAYER_INTERFACE, {}, "", EmptyMetadata) }
    \cup SignalsOf(MPRIS_PLAYER_INTERFACE, PlaybackStatusValues, MetadataValues,
                   {"Playing", "Paused"},
                   {FullTrack, Metadata(JsArray(<<JsNumber(7)>>), JsString(<<"T">>))})
    \cup SignalsOf(MPRIS_ROOT_INTERFACE, {}, {}, {"Playing"}, {FullTrack})

(***************************************************************************)
(* The placement in the panel (_updateIndicator; the same code in both     *)
(* revisions).                                                             *)
(***************************************************************************)

\* Number of children a panel box has when the indicator is placed: 0..MaxChildren.
MaxChildren == 3

\* const validPositions
validPositions ==
    {"far-left", "mid-left", "rightmost-left", "middle-left", "center",
     "middle-right", "leftmost-right", "mid-right", "far-right"}

\* The values the 'position' key takes: the nine of the preferences window and
\* one that a write to the key from elsewhere can leave.
PositionValues == validPositions \cup {"bottom"}

\* `offset = null`
NullOffset == -1

\* The validation without its assignment.
Validated_asIs(p) == p

\* if (!validPositions.includes(position)) position = 'rightmost-left';
Validated(p) == IF p \in validPositions THEN p ELSE "rightmost-left"

\* switch (position): the box and the offset, length being the number of
\* children of the box the case reads.
Place(p, length) ==
    CASE p = "far-left" -> [boxName |-> "left", offset |-> 0]
      [] p = "mid-left" -> [boxName |-> "left", offset |-> length \div 2]
      [] p = "rightmost-left" -> [boxName |-> "left", offset |-> length]
      [] p = "middle-left" ->
            [boxName |-> "center",
             offset |-> IF (length \div 2) - 1 > 0 THEN (length \div 2) - 1 ELSE 0]
      [] p = "center" -> [boxName |-> "center", offset |-> length \div 2]
      [] p = "middle-right" -> [boxName |-> "center", offset |-> (length \div 2) + 1]
      [] p = "leftmost-right" -> [boxName |-> "right", offset |-> 0]
      [] p = "mid-right" -> [boxName |-> "right", offset |-> length \div 2]
      [] p = "far-right" -> [boxName |-> "right", offset |-> length]
      [] OTHER -> [boxName |-> "right", offset |-> NullOffset]

\* Main.panel.addToStatusArea('spotify-indicator', spotifyIndicator, offset,
\* boxName), with the key's value and the length of the box at that moment.
Placed(p, length) ==
    [setting |-> p, length |-> length,
     boxName |-> Place(Validated(p), length).boxName,
     offset |-> Place(Validated(p), length).offset]

\* No addToStatusArea call yet.
NoPlacement == [setting |-> "", length |-> 0, boxName |-> "", offset |-> 0]

\* What is left of an indicator when spotifyIndicator stops referring to it:
\* its handles, whether its name watch and its subscriptions are still
\* registered, whether super.destroy() has run, and the handles it held
\* before.
Dropped(d, w, s, watching, registered, held) ==
    [dropped |-> TRUE, destroyed |-> d, _spotifyWatcherId |-> w,
     _signalSubscriptionId |-> s, watching |-> watching, registered |-> registered,
     held |-> held]

\* No indicator has been replaced or destroyed by the extension.
NoPrevious ==
    [dropped |-> FALSE, destroyed |-> FALSE, _spotifyWatcherId |-> 0,
     _signalSubscriptionId |-> 0, watching |-> FALSE, registered |-> {},
     held |-> [watch |-> 0, subscription |-> 0]]

\* No button was pressed on the indicator yet.
NoPress == [button |-> 0, unminimized |-> <<>>, activated |-> <<>>]

(***************************************************************************)
(* State.                                                                  *)
(***************************************************************************)
VARIABLES
    variant,                \* which revision of SpotifyIndicator runs
    visible,                \* this.show() / this.hide()
    icon_name,              \* this.playPauseButton.child.icon_name
    trackLabel,             \* this.trackLabel.text
    _signalSubscriptionId,  \* 0 is null
    _spotifyWatcherId,      \* 0 is null
    destroyed,              \* super.destroy() has run
    nextSubscriptionId,     \* the id the next signal_subscribe returns
    unsubscribeCalls,       \* per subscription id: signal_unsubscribe calls on it
    unwatchCalls,           \* unwatch_name calls on the watcher id
    tasks,                  \* the _onSpotifyAppeared coroutines, in call order
    lastCallback,           \* the most recent name-watch callback
    quiet,                  \* the task since whose start only its own steps ran
    lastEvent,              \* the handler that ran last
    calls,                  \* the MPRIS method calls awaiting call_finish
    running,                \* Spotify owns its bus name
    playerStatus,           \* the PlaybackStatus property of the player
    playerTrack,            \* the Metadata property of the player
    requests,               \* the Gets the player has not answered yet
    channel,                \* the messages on their way to the shell, in order
    fetched,                \* the Gets that were answered with a value
    enabled,                \* enable() has run and disable() has not since
    spotifyIndicator,       \* the module-level variable: 0 is null, 1 the indicator
    _positionChangedId,     \* 0 is null (_settingsChangedId in src/extension.js)
    _controlsPositionChangedId, \* 0 is null
    position,               \* the value of the 'position' key
    placement,              \* what the last addToStatusArea call was given
    alive,                  \* the SpotifyIndicator objects not destroyed
    mostAlive,              \* the most of them at any point of the last handler
    previous,               \* the indicator spotifyIndicator referred to before
    windows,                \* the windows on the desktop, in actor order
    press                   \* the last button press on the indicator and its calls

\* The fields of the indicator, its coroutines and what is recorded of them.
indicatorVars ==
    << variant, visible, icon_name, trackLabel, _signalSubscriptionId,
       _spotifyWatcherId, destroyed, nextSubscriptionId, unsubscribeCalls,
       unwatchCalls, tasks, lastCallback, quiet, lastEvent, calls >>

\* The player and the bus between it and the shell.
playerVars == << running, playerStatus, playerTrack, requests, channel, fetched >>

\* The extension object, the settings key and the panel.
extensionVars ==
    << enabled, spotifyIndicator, _positionChangedId, _controlsPositionChangedId,
       position, placement, alive, mostAlive, previous >>

\* The desktop the indicator is pressed on.
windowVars == << windows, press >>

vars == << indicatorVars, playerVars, extensionVars, windowVars >>

\* What the last handler was given and did: the properties (of a signal) or
\* keys (of a fetched mapping) it carried, whether it applied them (for a
\* teardown: whether it found a handle to release), whether it raised.
\* The other handlers leave NoInput.
Event(kind, attempt, ok, props, accepted, threw) ==
    [kind |-> kind, attempt |-> attempt, ok |-> ok, props |-> props,
     accepted |-> accepted, threw |-> threw]

NoInput == Event("none", 0, TRUE, {}, FALSE, FALSE)

\* The keys of a fetched mapping that `if (metadata[key])` finds.
KeysOf(metadata) ==
    {k \in {"xesam:artist", "xesam:title"} :
        Truthy(IF k = "xesam:artist" THEN metadata.artist ELSE metadata.title)}

\* A coroutine of _onSpotifyAppeared suspended at its first await.
NewTask(ops) ==
    [ pc |-> "awaitPlaybackStatus",  \* where the coroutine is suspended
      i |-> 0,                       \* the loop index of _retryFetchMetadata
      playbackStatus |-> "",         \* the local `playbackStatus`, kept where it is read after an await
      ops |-> ops ]                  \* the bus calls it issued, in order

\* A coroutine that has returned: its locals are gone.
Ended == [pc |-> "done", i |-> 0, playbackStatus |-> "", ops |-> <<>>]

Count(n) == IF n < MaxCounted THEN n + 1 ELSE n

\* The subscriptions the bus still delivers to _onPropertiesChanged.
Registered == {id \in DOMAIN unsubscribeCalls : unsubscribeCalls[id] = 0}

\* _init: _signalSubscriptionId = null, _buildUI, _monitorSpotifyPresence.
InitIndicator ==
    /\ variant \in {"retry", "ext"}
    /\ visible = FALSE
    /\ icon_name = "media-playback-start-symbolic"
    /\ trackLabel = NoTrackPlaying
    /\ _signalSubscriptionId = 0
    /\ _spotifyWatcherId = 1
    /\ destroyed = FALSE
    /\ nextSubscriptionId = 1
    /\ unsubscribeCalls = <<>>
    /\ unwatchCalls = 0
    /\ tasks = <<>>
    /\ lastCallback = "none"
    /\ quiet = 0
    /\ lastEvent = NoInput
    /\ calls = <<>>

\* Spotify is not running.
InitPlayer ==
    /\ running = FALSE
    /\ playerStatus = "Stopped"
    /\ playerTrack = FullTrack
    /\ requests = <<>>
    /\ channel = <<>>
    /\ fetched = {}

\* The indicator constructed by the first enable(), which put it in a panel
\* box.
InitEnabled ==
    /\ enabled = TRUE
    /\ spotifyIndicator = 1
    /\ _positionChangedId = 1
    /\ _controlsPositionChangedId = IF variant = "retry" THEN 1 ELSE 0
    /\ position = "rightmost-left"
    /\ placement = Placed(position, 0)
    /\ alive = 1
    /\ mostAlive = 1
    /\ previous = NoPrevious

\* The indicator in the panel of a desktop without windows.
Init ==
    /\ InitIndicator
    /\ InitPlayer
    /\ InitEnabled
    /\ windows = <<>>
    /\ press = NoPress

\* Gio.DBus.session.signal_subscribe(...) assigned to _signalSubscriptionId.
Subscribe ==
    /\ _signalSubscriptionId' = nextSubscriptionId
    /\ nextSubscriptionId' = nextSubscriptionId + 1
    /\ unsubscribeCalls' = Append(unsubscribeCalls, 0)

\* The unsubscribe block without `this._signalSubscriptionId = null`.
UnsubscribeIfSubscribed_keepsId ==
    /\ IF _signalSubscriptionId # 0
       THEN unsubscribeCalls' =
                [unsubscribeCalls EXCEPT ![_signalSubscriptionId] = Count(@)]
       ELSE UNCHANGED unsubscribeCalls
    /\ UNCHANGED <<_signalSubscriptionId, nextSubscriptionId>>

\* if (this._signalSubscriptionId) { signal_unsubscribe(id); id = null; }
UnsubscribeIfSubscribed ==
    /\ IF _signalSubscriptionId # 0
       THEN /\ unsubscribeCalls' =
                  [unsubscribeCalls EXCEPT ![_signalSubscriptionId] = Count(@)]
            /\ _signalSubscriptionId' = 0
       ELSE UNCHANGED <<unsubscribeCalls, _signalSubscriptionId>>
    /\ UNCHANGED nextSubscriptionId

\* if (this._spotifyWatcherId) { unwatch_name(id); id = null; }
UnwatchIfWatching ==
    IF _spotifyWatcherId # 0
    THEN /\ unwatchCalls' = Count(unwatchCalls)
         /\ _spotifyWatcherId' = 0
    ELSE UNCHANGED <<unwatchCalls, _spotifyWatcherId>>

\* The callbacks of watch_name run only while the watch is registered.
Watching == unwatchCalls = 0

\* watch_name calls name_appeared_handler only when its previous call was not
\* that handler, so no two appeared callbacks follow one another.
CanAppear == Watching /\ lastCallback # "appeared"

StepOf(t) == quiet' = IF quiet = t THEN t ELSE 0

(***************************************************************************)
(* The retry revision (src/unnamed/part_000, lines 61-523).                *)
(***************************************************************************)

\* _onSpotifyAppeared with the fetch issued before signal_subscribe.
_onSpotifyAppeared_fetchFirst ==
    /\ variant = "retry"
    /\ CanAppear
    /\ Len(tasks) < MaxAppeared
    /\ visible' = TRUE
    /\ tasks' = Append(tasks, NewTask(<<"Get:PlaybackStatus">>))
    /\ lastCallback' = "appeared"
    /\ quiet' = Len(tasks) + 1
    /\ lastEvent' = NoInput
    /\ UNCHANGED <<variant, icon_name, trackLabel, _signalSubscriptionId,
                   _spotifyWatcherId, destroyed, nextSubscriptionId,
                   unsubscribeCalls, unwatchCalls>>
    /\ UNCHANGED calls

\* _onSpotifyAppeared up to its first await: show, signal_subscribe, then the
\* Get of PlaybackStatus is issued.
_onSpotifyAppeared ==
    /\ variant = "retry"
    /\ CanAppear
    /\ Len(tasks) < MaxAppeared
    /\ visible' = TRUE
    /\ Subscribe
    /\ tasks' = Append(tasks, NewTask(<<"signal_subscribe", "Get:PlaybackStatus">>))
    /\ lastCallback' = "appeared"
    /\ quiet' = Len(tasks) + 1
    /\ lastEvent' = NoInput
    /\ UNCHANGED <<variant, icon_name, trackLabel, _spotifyWatcherId, destroyed,
                   unwatchCalls>>
    /\ UNCHANGED calls

\* The first await of _onSpotifyAppeared with the Get issued again when it is
\* rejected.
PlaybackStatusReply_refetch(t, r) ==
    /\ variant = "retry"
    /\ t \in DOMAIN tasks
    /\ tasks[t].pc = "awaitPlaybackStatus"
    /\ IF r.ok
       THEN /\ icon_name' = _updatePlayPauseIcon(r.value)
            /\ tasks' = [tasks EXCEPT ![t] =
                           [@ EXCEPT !.pc = "awaitMetadata",
                                     !.ops = Append(@, "Get:Metadata")]]
       ELSE /\ icon_name' = icon_name
            /\ tasks' = [tasks EXCEPT ![t] =
                           IF Len(@.ops) < retries + 1
                           THEN [@ EXCEPT !.ops = Append(@, "Get:PlaybackStatus")]
                           ELSE Ended]
    /\ StepOf(t)
    /\ lastEvent' = NoInput
    /\ UNCHANGED <<variant, visible, trackLabel, _signalSubscriptionId,
                   _spotifyWatcherId, destroyed, nextSubscriptionId,
                   unsubscribeCalls, unwatchCalls, lastCallback>>
    /\ UNCHANGED calls

\* The first await of _onSpotifyAppeared without the call of
\* _updatePlayPauseIcon that follows it.
PlaybackStatusReply_noIcon(t, r) ==
    /\ variant = "retry"
    /\ t \in DOMAIN tasks
    /\ tasks[t].pc = "awaitPlaybackStatus"
    /\ icon_name' = icon_name
    /\ tasks' = [tasks EXCEPT ![t] =
                   IF r.ok
                   THEN [@ EXCEPT !.pc = "awaitMetadata",
                                  !.ops = Append(@, "Get:Metadata")]
                   ELSE Ended]
    /\ StepOf(t)
    /\ lastEvent' = NoInput
    /\ UNCHANGED <<variant, visible, trackLabel, _signalSubscriptionId,
                   _spotifyWatcherId, destroyed, nextSubscriptionId,
                   unsubscribeCalls, unwatchCalls, lastCallback>>
    /\ UNCHANGED calls

\* The await of _getPlaybackStatus() resumes: the icon is updated (the local is
\* not read again) and _retryFetchMetadata issues its first Get; a rejection
\* goes to the catch.
PlaybackStatusReply(t, r) ==
    /\ variant = "retry"
    /\ t \in DOMAIN tasks
    /\ tasks[t].pc = "awaitPlaybackStatus"
    /\ IF r.ok
       THEN /\ icon_name' = _updatePlayPauseIcon(r.value)
            /\ tasks' = [tasks EXCEPT ![t] =
                           [@ EXCEPT !.pc = "awaitMetadata",
                                     !.ops = Append(@, "Get:Metadata")]]
       ELSE /\ icon_name' = icon_name
            /\ tasks' = [tasks EXCEPT ![t] = Ended]
    /\ StepOf(t)
    /\ lastEvent' = NoInput
    /\ UNCHANGED <<variant, visible, trackLabel, _signalSubscriptionId,
                   _spotifyWatcherId, destroyed, nextSubscriptionId,
                   unsubscribeCalls, unwatchCalls, lastCallback>>
    /\ UNCHANGED calls

\* An attempt of _retryFetchMetadata without the `return` after the update.
MetadataReply_noReturn(t, r) ==
    /\ variant = "retry"
    /\ t \in DOMAIN tasks
    /\ tasks[t].pc = "awaitMetadata"
    /\ LET valid == r.ok /\ MetadataIsValid(r.value)
           upd == _updateTrackInfo(r.value)
           applied == valid /\ ~upd.threw
       IN  /\ trackLabel' = IF applied THEN upd.text ELSE trackLabel
           /\ tasks' = [tasks EXCEPT ![t] = [@ EXCEPT !.pc = "sleep"]]
           /\ lastEvent' = Event("metadataReply", tasks[t].i + 1, r.ok, KeysOf(r.value), applied,
                                valid /\ upd.threw)
    /\ StepOf(t)
    /\ UNCHANGED <<variant, visible, icon_name, _signalSubscriptionId,
                   _spotifyWatcherId, destroyed, nextSubscriptionId,
                   unsubscribeCalls, unwatchCalls, lastCallback>>
    /\ UNCHANGED calls

\* One attempt of _retryFetchMetadata resumes from `await this._getMetadata()`.
MetadataReply(t, r) ==
    /\ variant = "retry"
    /\ t \in DOMAIN tasks
    /\ tasks[t].pc = "awaitMetadata"
    /\ LET valid == r.ok /\ MetadataIsValid(r.value)
           upd == _updateTrackInfo(r.value)
           applied == valid /\ ~upd.threw
       IN  /\ trackLabel' = IF applied THEN upd.text ELSE trackLabel
           /\ tasks' = [tasks EXCEPT ![t] =
                          IF applied THEN Ended ELSE [@ EXCEPT !.pc = "sleep"]]
           /\ lastEvent' = Event("metadataReply", tasks[t].i + 1, r.ok, KeysOf(r.value), applied,
                                valid /\ upd.threw)
    /\ StepOf(t)
    /\ UNCHANGED <<variant, visible, icon_name, _signalSubscriptionId,
                   _spotifyWatcherId, destroyed, nextSubscriptionId,
                   unsubscribeCalls, unwatchCalls, lastCallback>>
    /\ UNCHANGED calls

\* The loop of _retryFetchMetadata with `i <= retries` as its condition.
RetryTimer_offByOne(t) ==
    /\ variant = "retry"
    /\ t \in DOMAIN tasks
    /\ tasks[t].pc = "sleep"
    /\ tasks' = [tasks EXCEPT ![t] =
                   IF @.i + 1 <= retries
                   THEN [@ EXCEPT !.pc = "awaitMetadata",
                                  !.i = @ + 1,
                                  !.ops = Append(@, "Get:Metadata")]
                   ELSE Ended]
    /\ StepOf(t)
    /\ lastEvent' = Event("retryTimer", tasks[t].i + 1, TRUE, {}, FALSE, FALSE)
    /\ UNCHANGED <<variant, visible, icon_name, trackLabel, _signalSubscriptionId,
                   _spotifyWatcherId, destroyed, nextSubscriptionId,
                   unsubscribeCalls, unwatchCalls, lastCallback>>
    /\ UNCHANGED calls

\* _retryFetchMetadata treating exhaustion as an error of the session: the
\* subscription is given up when the last attempt was not accepted.
RetryTimer_givesUp(t) ==
    /\ variant = "retry"
    /\ t \in DOMAIN tasks
    /\ tasks[t].pc = "sleep"
    /\ tasks' = [tasks EXCEPT ![t] =
                   IF @.i + 1 < retries
                   THEN [@ EXCEPT !.pc = "awaitMetadata",
                                  !.i = @ + 1,
                                  !.ops = Append(@, "Get:Metadata")]
                   ELSE Ended]
    /\ IF tasks[t].i + 1 < retries
       THEN UNCHANGED <<_signalSubscriptionId, nextSubscriptionId, unsubscribeCalls>>
       ELSE UnsubscribeIfSubscribed
    /\ StepOf(t)
    /\ lastEvent' = Event("retryTimer", tasks[t].i + 1, TRUE, {}, FALSE, FALSE)
    /\ UNCHANGED <<variant, visible, icon_name, trackLabel,
                   _spotifyWatcherId, destroyed, unwatchCalls, lastCallback>>
    /\ UNCHANGED calls

\* The setTimeout(res, delay) of _retryFetchMetadata fires: i++, then either
\* the next attempt is issued or the loop ends.
RetryTimer(t) ==
    /\ variant = "retry"
    /\ t \in DOMAIN tasks
    /\ tasks[t].pc = "sleep"
    /\ tasks' = [tasks EXCEPT ![t] =
                   IF @.i + 1 < retries
                   THEN [@ EXCEPT !.pc = "awaitMetadata",
                                  !.i = @ + 1,
                                  !.ops = Append(@, "Get:Metadata")]
                   ELSE Ended]
    /\ StepOf(t)
    /\ lastEvent' = Event("retryTimer", tasks[t].i + 1, TRUE, {}, FALSE, FALSE)
    /\ UNCHANGED <<variant, visible, icon_name, trackLabel, _signalSubscriptionId,
                   _spotifyWatcherId, destroyed, nextSubscriptionId,
                   unsubscribeCalls, unwatchCalls, lastCallback>>
    /\ UNCHANGED calls

(***************************************************************************)
(* The revision of src/extension.js (lines 86-417).                        *)
(***************************************************************************)

\* _onSpotifyAppeared up to its first await: show, then the Get of
\* PlaybackStatus is issued.
Ext_onSpotifyAppeared ==
    /\ variant = "ext"
    /\ CanAppear
    /\ Len(tasks) < MaxAppeared
    /\ visible' = TRUE
    /\ tasks' = Append(tasks, NewTask(<<"Get:PlaybackStatus">>))
    /\ lastCallback' = "appeared"
    /\ quiet' = Len(tasks) + 1
    /\ lastEvent' = NoInput
    /\ UNCHANGED <<variant, icon_name, trackLabel, _signalSubscriptionId,
                   _spotifyWatcherId, destroyed, nextSubscriptionId,
                   unsubscribeCalls, unwatchCalls>>
    /\ UNCHANGED calls

\* The await of _getPlaybackStatus() resumes: the value is kept in the local and
\* the Get of Metadata is issued; a rejection ends the try, then signal_subscribe.
ExtPlaybackStatusReply(t, r) ==
    /\ variant = "ext"
    /\ t \in DOMAIN tasks
    /\ tasks[t].pc = "awaitPlaybackStatus"
    /\ IF r.ok
       THEN /\ tasks' = [tasks EXCEPT ![t] =
                           [@ EXCEPT !.pc = "awaitMetadata",
                                     !.playbackStatus = r.value,
                                     !.ops = Append(@, "Get:Metadata")]]
            /\ UNCHANGED <<_signalSubscriptionId, nextSubscriptionId, unsubscribeCalls>>
       ELSE /\ tasks' = [tasks EXCEPT ![t] =
                           Ended]
            /\ Subscribe
    /\ StepOf(t)
    /\ lastEvent' = NoInput
    /\ UNCHANGED <<variant, visible, icon_name, trackLabel, _spotifyWatcherId,
                   destroyed, unwatchCalls, lastCallback>>
    /\ UNCHANGED calls

\* The await of _getMetadata() resumes: both updates are applied (or the catch
\* runs), then signal_subscribe.
ExtMetadataReply(t, r) ==
    /\ variant = "ext"
    /\ t \in DOMAIN tasks
    /\ tasks[t].pc = "awaitMetadata"
    /\ IF r.ok
       THEN /\ icon_name' = _updatePlayPauseIcon(tasks[t].playbackStatus)
            /\ trackLabel' = Ext_updateTrackInfo(r.value).text
       ELSE UNCHANGED <<icon_name, trackLabel>>
    /\ Subscribe
    /\ tasks' = [tasks EXCEPT ![t] =
                           Ended]
    /\ StepOf(t)
    /\ lastEvent' = Event("metadataReply", 1, r.ok, KeysOf(r.value), r.ok, FALSE)
    /\ UNCHANGED <<variant, visible, _spotifyWatcherId, destroyed, unwatchCalls,
                   lastCallback>>
    /\ UNCHANGED calls

(***************************************************************************)
(* Handlers the two revisions share.                                       *)
(***************************************************************************)

\* _onPropertiesChanged rebuilding the whole display from changedProps: a
\* property the signal does not carry falls back to its default.
HandlePropertiesChanged_replace(sig, upd) ==
    LET accepted == sig.iface = MPRIS_PLAYER_INTERFACE
        hasStatus == accepted /\ "PlaybackStatus" \in sig.props
        hasMetadata == accepted /\ "Metadata" \in sig.props
    IN  /\ icon_name' = IF hasStatus
                        THEN _updatePlayPauseIcon(sig.PlaybackStatus)
                        ELSE IF accepted THEN "media-playback-start-symbolic"
                        ELSE icon_name
        /\ trackLabel' = IF hasMetadata /\ ~upd.threw THEN upd.text
                         ELSE IF accepted THEN NoTrackPlaying
                         ELSE trackLabel
        /\ lastEvent' = Event("signal", 0, TRUE, IF accepted THEN sig.props ELSE {}, accepted,
                                hasMetadata /\ upd.threw)

\* The body of _onPropertiesChanged without the test of the interface name.
HandlePropertiesChanged_noFilter(sig, upd) ==
    LET hasStatus == "PlaybackStatus" \in sig.props
        hasMetadata == "Metadata" \in sig.props
    IN  /\ icon_name' = IF hasStatus
                        THEN _updatePlayPauseIcon(sig.PlaybackStatus)
                        ELSE icon_name
        /\ trackLabel' = IF hasMetadata /\ ~upd.threw THEN upd.text ELSE trackLabel
        /\ lastEvent' = Event("signal", 0, TRUE,
                              IF sig.iface = MPRIS_PLAYER_INTERFACE THEN sig.props ELSE {},
                              sig.iface = MPRIS_PLAYER_INTERFACE,
                              hasMetadata /\ upd.threw)

\* The body of _onPropertiesChanged, with the revision's _updateTrackInfo
\* applied to the signal's Metadata.
HandlePropertiesChanged(sig, upd) ==
    LET accepted == sig.iface = MPRIS_PLAYER_INTERFACE
        hasStatus == accepted /\ "PlaybackStatus" \in sig.props
        hasMetadata == accepted /\ "Metadata" \in sig.props
    IN  /\ icon_name' = IF hasStatus
                        THEN _updatePlayPauseIcon(sig.PlaybackStatus)
                        ELSE icon_name
        /\ trackLabel' = IF hasMetadata /\ ~upd.threw THEN upd.text ELSE trackLabel
        /\ lastEvent' = Event("signal", 0, TRUE, IF accepted THEN sig.props ELSE {}, accepted,
                                hasMetadata /\ upd.threw)

\* A PropertiesChanged signal is delivered through a registered subscription.
_onPropertiesChanged(sig) ==
    /\ Registered # {}
    /\ IF variant = "retry"
       THEN HandlePropertiesChanged(sig, _updateTrackInfo(sig.Metadata))
       ELSE HandlePropertiesChanged(sig, Ext_updateTrackInfo(sig.Metadata))
    /\ quiet' = 0
    /\ UNCHANGED <<variant, visible, _signalSubscriptionId, _spotifyWatcherId,
                   destroyed, nextSubscriptionId, unsubscribeCalls, unwatchCalls,
                   tasks, lastCallback>>
    /\ UNCHANGED calls

\* _onSpotifyVanished without its unsubscribe block.
_onSpotifyVanished_keepsSubscription ==
    /\ Watching
    /\ visible' = FALSE
    /\ lastCallback' = "vanished"
    /\ quiet' = 0
    /\ lastEvent' = Event("vanished", 0, TRUE, {}, FALSE, FALSE)
    /\ UNCHANGED <<variant, icon_name, trackLabel, _spotifyWatcherId, destroyed,
                   unwatchCalls, tasks, _signalSubscriptionId,
                   nextSubscriptionId, unsubscribeCalls>>
    /\ UNCHANGED calls

\* _onSpotifyVanished without `this.hide()`.
_onSpotifyVanished_noHide ==
    /\ Watching
    /\ UnsubscribeIfSubscribed
    /\ lastCallback' = "vanished"
    /\ quiet' = 0
    /\ lastEvent' = Event("vanished", 0, TRUE, {}, _signalSubscriptionId # 0, FALSE)
    /\ UNCHANGED <<variant, visible, icon_name, trackLabel, _spotifyWatcherId,
                   destroyed, unwatchCalls, tasks>>
    /\ UNCHANGED calls

\* _onSpotifyVanished: hide, unsubscribe.
_onSpotifyVanished ==
    /\ Watching
    /\ visible' = FALSE
    /\ UnsubscribeIfSubscribed
    /\ lastCallback' = "vanished"
    /\ quiet' = 0
    /\ lastEvent' = Event("vanished", 0, TRUE, {}, _signalSubscriptionId # 0, FALSE)
    /\ UNCHANGED <<variant, icon_name, trackLabel, _spotifyWatcherId, destroyed,
                   unwatchCalls, tasks>>
    /\ UNCHANGED calls

\* destroy() without its unsubscribe block.
destroy_keepsSubscription ==
    /\ UnwatchIfWatching
    /\ destroyed' = TRUE
    /\ quiet' = 0
    /\ lastEvent' = Event("destroy", 0, TRUE, {},
                          _spotifyWatcherId # 0 \/ _signalSubscriptionId # 0, FALSE)
    /\ UNCHANGED <<variant, visible, icon_name, trackLabel, tasks, lastCallback,
                   _signalSubscriptionId, nextSubscriptionId, unsubscribeCalls>>
    /\ UNCHANGED calls

\* destroy(): unwatch, unsubscribe, super.destroy().
destroy ==
    /\ UnwatchIfWatching
    /\ UnsubscribeIfSubscribed
    /\ destroyed' = TRUE
    /\ quiet' = 0
    /\ lastEvent' = Event("destroy", 0, TRUE, {},
                          _spotifyWatcherId # 0 \/ _signalSubscriptionId # 0, FALSE)
    /\ UNCHANGED <<variant, visible, icon_name, trackLabel, tasks, lastCallback>>
    /\ UNCHANGED calls

(***************************************************************************)
(* The playback buttons (the same code in both revisions).                 *)
(***************************************************************************)

\* prevButton, playPauseButton and nextButton of _buildUI.
Buttons == {"prevButton", "playPauseButton", "nextButton"}

\* The argument each button's 'clicked' closure passes to _sendMPRISCommand.
ClickedCommand(button) ==
    CASE button = "prevButton" -> "Previous"
      [] button = "playPauseButton" -> "PlayPause"
      [] button = "nextButton" -> "Next"

\* Gio.DBus.session.call(SPOTIFY_BUS_NAME, SPOTIFY_OBJECT_PATH,
\* MPRIS_PLAYER_INTERFACE, command, ...): the message put on the bus.
MethodCall(command) == [interface |-> MPRIS_PLAYER_INTERFACE, method |-> command]

\* _sendMPRISCommand that also flips the play/pause icon at once on PlayPause.
_sendMPRISCommand_optimistic(command) ==
    /\ Len(calls) < MaxCalls
    /\ calls' = Append(calls, MethodCall(command))
    /\ icon_name' = IF command # "PlayPause" THEN icon_name
                    ELSE IF icon_name = "media-playback-start-symbolic"
                    THEN "media-playback-pause-symbolic"
                    ELSE "media-playback-start-symbolic"
    /\ quiet' = 0
    /\ lastEvent' = Event("command", 0, TRUE, {command}, TRUE, FALSE)
    /\ UNCHANGED <<variant, visible, trackLabel, _signalSubscriptionId,
                   _spotifyWatcherId, destroyed, nextSubscriptionId,
                   unsubscribeCalls, unwatchCalls, tasks, lastCallback>>

\* _sendMPRISCommand(command): the call is issued with a callback and the
\* method returns; nothing of the indicator is written.
_sendMPRISCommand(command) ==
    /\ Len(calls) < MaxCalls
    /\ calls' = Append(calls, MethodCall(command))
    /\ quiet' = 0
    /\ lastEvent' = Event("command", 0, TRUE, {command}, TRUE, FALSE)
    /\ UNCHANGED <<variant, visible, icon_name, trackLabel, _signalSubscriptionId,
                   _spotifyWatcherId, destroyed, nextSubscriptionId,
                   unsubscribeCalls, unwatchCalls, tasks, lastCallback>>

\* A button is clicked: the buttons are on display between show() and hide(),
\* until the actor is destroyed.
Clicked(button) ==
    /\ visible
    /\ ~destroyed
    /\ _sendMPRISCommand(ClickedCommand(button))

\* The callback of the call with a second call of the method when
\* call_finish raises.
CallFinished_reissue(k, ok) ==
    /\ k \in DOMAIN calls
    /\ calls' = IF ok
                THEN [j \in 1..(Len(calls) - 1) |->
                         IF j < k THEN calls[j] ELSE calls[j + 1]]
                ELSE calls
    /\ quiet' = 0
    /\ lastEvent' = Event("commandReply", 0, ok, {calls[k].method}, FALSE, FALSE)
    /\ UNCHANGED <<variant, visible, icon_name, trackLabel, _signalSubscriptionId,
                   _spotifyWatcherId, destroyed, nextSubscriptionId,
                   unsubscribeCalls, unwatchCalls, tasks, lastCallback>>

\* The callback of the k-th call in flight: conn.call_finish(res) returns (ok)
\* or raises (the method failed, timed out, or Spotify has left the bus); either
\* way a line is logged and the call is over.
CallFinished(k, ok) ==
    /\ k \in DOMAIN calls
    /\ calls' = [j \in 1..(Len(calls) - 1) |->
                    IF j < k THEN calls[j] ELSE calls[j + 1]]
    /\ quiet' = 0
    /\ lastEvent' = Event("commandReply", 0, ok, {calls[k].method}, FALSE, FALSE)
    /\ UNCHANGED <<variant, visible, icon_name, trackLabel, _signalSubscriptionId,
                   _spotifyWatcherId, destroyed, nextSubscriptionId,
                   unsubscribeCalls, unwatchCalls, tasks, lastCallback>>

\* The resumptions of coroutine t: bus replies and the retry timer, with any
\* outcome at any time.
TaskStep(t) ==
    \/ \E r \in PlaybackStatusReplies :
          PlaybackStatusReply(t, r) /\ UNCHANGED <<playerVars, extensionVars, windowVars>>
    \/ \E r \in MetadataReplies : MetadataReply(t, r) /\ UNCHANGED <<playerVars, extensionVars, windowVars>>
    \/ RetryTimer(t) /\ UNCHANGED <<playerVars, extensionVars, windowVars>>
    \/ \E r \in PlaybackStatusReplies :
          ExtPlaybackStatusReply(t, r) /\ UNCHANGED <<playerVars, extensionVars, windowVars>>
    \/ \E r \in MetadataReplies : ExtMetadataReply(t, r) /\ UNCHANGED <<playerVars, extensionVars, windowVars>>

\* The handlers under any schedule of callbacks, replies and signals (the
\* player is not looked at).
Next ==
    \/ _onSpotifyAppeared /\ UNCHANGED <<playerVars, extensionVars, windowVars>>
    \/ Ext_onSpotifyAppeared /\ UNCHANGED <<playerVars, extensionVars, windowVars>>
    \/ \E t \in 1..MaxAppeared : TaskStep(t)
    \/ \E sig \in Signals : _onPropertiesChanged(sig) /\ UNCHANGED <<playerVars, extensionVars, windowVars>>
    \/ _onSpotifyVanished /\ UNCHANGED <<playerVars, extensionVars, windowVars>>
    \/ destroy /\ UNCHANGED <<playerVars, extensionVars, windowVars>>

Spec == Init /\ [][Next]_vars

\* Every Get is answered or times out (call timeout -1 is the bus default) and
\* every setTimeout fires: a suspended coroutine is eventually resumed.
FairSpec == Spec /\ \A t \in 1..MaxAppeared : WF_vars(TaskStep(t))

\* The synchronisation together with the playback buttons. No handler of Next
\* reads or writes the calls in flight, and the two button handlers write
\* nothing but them, so Spec is this specification with the buttons left alone.
CommandNext ==
    \/ Next
    \/ \E button \in Buttons : Clicked(button) /\ UNCHANGED <<playerVars, extensionVars, windowVars>>
    \/ \E k \in 1..MaxCalls, ok \in BOOLEAN :
          CallFinished(k, ok) /\ UNCHANGED <<playerVars, extensionVars, windowVars>>

CommandSpec == Init /\ [][CommandNext]_vars

(***************************************************************************)
(* The teardown handlers when the session bus connection is gone.          *)
(* `Gio.DBus.session` is a getter that returns the session connection and  *)
(* raises when there is none to return; the name watch calls its vanished  *)
(* handler when the connection closes. Neither handler has a try around    *)
(* its bus calls.                                                          *)
(***************************************************************************)

\* _onSpotifyVanished with a subscription held: hide() has run when the bus
\* call raises, and the assignment of null after it is not reached.
VanishedOnClosedBus ==
    /\ Watching
    /\ _signalSubscriptionId # 0
    /\ visible' = FALSE
    /\ lastCallback' = "vanished"
    /\ quiet' = 0
    /\ lastEvent' = Event("vanished", 0, FALSE, {}, TRUE, TRUE)
    /\ UNCHANGED <<variant, icon_name, trackLabel, _signalSubscriptionId,
                   _spotifyWatcherId, destroyed, nextSubscriptionId,
                   unsubscribeCalls, unwatchCalls, tasks, calls>>

\* destroy() with the watch held: the first bus call (unwatch_name) raises, so
\* neither handle is nulled and super.destroy() is not reached.
DestroyOnClosedBus ==
    /\ _spotifyWatcherId # 0
    /\ quiet' = 0
    /\ lastEvent' = Event("destroy", 0, FALSE, {}, TRUE, TRUE)
    /\ UNCHANGED <<variant, visible, icon_name, trackLabel, _signalSubscriptionId,
                   _spotifyWatcherId, destroyed, nextSubscriptionId,
                   unsubscribeCalls, unwatchCalls, tasks, lastCallback, calls>>

\* The synchronisation on a session bus whose connection can be lost.
ClosedBusNext ==
    \/ Next
    \/ VanishedOnClosedBus /\ UNCHANGED <<playerVars, extensionVars, windowVars>>
    \/ DestroyOnClosedBus /\ UNCHANGED <<playerVars, extensionVars, windowVars>>

ClosedBusSpec == Init /\ [][ClosedBusNext]_vars

(***************************************************************************)
(* The handlers fed by a player: Spotify owns its name or not, has a       *)
(* PlaybackStatus and a track, answers the Gets sent to it and emits       *)
(* PropertiesChanged when a property changes. All of it reaches the shell  *)
(* over one connection, so callbacks, replies and signals are delivered in *)
(* the order they were sent.                                               *)
(***************************************************************************)

\* The tracks Spotify plays: one with artists, one that names no artist.
PlayerTracks == {FullTrack, Metadata(JsUndefined, JsString(<<"T">>))}

\* A message on its way: a name-owner change ("appeared", "vanished"), the
\* reply to the Get of `kind` of coroutine `task`, or a signal of `kind`.
Message(kind, task, ok, status, metadata) ==
    [kind |-> kind, task |-> task, ok |-> ok, status |-> status,
     metadata |-> metadata]

NameMessage(kind) == Message(kind, 0, TRUE, "", EmptyMetadata)

\* The name-appeared callbacks that have been or will be delivered.
Started ==
    Len(tasks) + Cardinality({k \in DOMAIN channel : channel[k].kind = "appeared"})

\* The signals among the messages on their way.
SignalsOnTheWay ==
    {k \in DOMAIN channel :
        channel[k].kind \in {"signal:PlaybackStatus", "signal:Metadata"}}

\* The bus routes a signal to the shell while a match rule of a subscription
\* is registered.
Emitted(msg) ==
    IF Registered # {}
    THEN /\ Cardinality(SignalsOnTheWay) < MaxSignals
         /\ channel' = Append(channel, msg)
    ELSE channel' = channel

\* The reply of the bus to a Get whose destination has no owner (any more).
ErrorReply(req) == Message(req.kind, req.task, FALSE, "", EmptyMetadata)

\* Spotify starts and takes its bus name.
PlayerStarts(status, track) ==
    /\ ~running
    /\ Started < MaxAppeared
    /\ running' = TRUE
    /\ playerStatus' = status
    /\ playerTrack' = track
    /\ channel' = Append(channel, NameMessage("appeared"))
    /\ UNCHANGED <<requests, fetched>>
    /\ UNCHANGED indicatorVars
    /\ UNCHANGED <<extensionVars, windowVars>>

\* Spotify exits: the Gets it has not answered fail, then its name is lost.
PlayerExits ==
    /\ running
    /\ running' = FALSE
    /\ playerStatus' = "Stopped"
    /\ playerTrack' = FullTrack
    /\ channel' = channel \o [k \in DOMAIN requests |-> ErrorReply(requests[k])]
                          \o <<NameMessage("vanished")>>
    /\ requests' = <<>>
    /\ UNCHANGED fetched
    /\ UNCHANGED indicatorVars
    /\ UNCHANGED <<extensionVars, windowVars>>

\* Playback starts, pauses or stops; PropertiesChanged carries the new status.
PlayerSetsStatus(status) ==
    /\ running
    /\ status # playerStatus
    /\ playerStatus' = status
    /\ Emitted(Message("signal:PlaybackStatus", 0, TRUE, status, EmptyMetadata))
    /\ UNCHANGED <<running, playerTrack, requests, fetched>>
    /\ UNCHANGED indicatorVars
    /\ UNCHANGED <<extensionVars, windowVars>>

\* The track changes; PropertiesChanged carries the new Metadata.
PlayerSetsTrack(track) ==
    /\ running
    /\ track # playerTrack
    /\ playerTrack' = track
    /\ Emitted(Message("signal:Metadata", 0, TRUE, "", track))
    /\ UNCHANGED <<running, playerStatus, requests, fetched>>
    /\ UNCHANGED indicatorVars
    /\ UNCHANGED <<extensionVars, windowVars>>

\* Spotify answers the oldest Get with the value the property has now, or the
\* call ends with an error (ok = FALSE: no reply within the timeout).
PlayerAnswers(ok) ==
    /\ running
    /\ requests # <<>>
    /\ LET req == Head(requests)
       IN  channel' = Append(channel,
                             IF ok
                             THEN Message(req.kind, req.task, TRUE,
                                          IF req.kind = "PlaybackStatus"
                                          THEN playerStatus ELSE "",
                                          IF req.kind = "Metadata"
                                          THEN playerTrack ELSE EmptyMetadata)
                             ELSE ErrorReply(req))
    /\ requests' = Tail(requests)
    /\ UNCHANGED <<running, playerStatus, playerTrack, fetched>>
    /\ UNCHANGED indicatorVars
    /\ UNCHANGED <<extensionVars, windowVars>>

\* The Get a handler has issued in this step goes to the player, or fails at
\* once when the name has no owner; `rest` is what remains to be delivered.
Sent(rest) ==
    LET issued == {t \in DOMAIN tasks' :
                      /\ tasks'[t].pc \in {"awaitPlaybackStatus", "awaitMetadata"}
                      /\ t \in DOMAIN tasks => tasks'[t] # tasks[t]}
    IN  IF issued = {}
        THEN requests' = requests /\ channel' = rest
        ELSE LET t == CHOOSE t \in issued : TRUE
                 req == [task |-> t,
                         kind |-> IF tasks'[t].pc = "awaitPlaybackStatus"
                                  THEN "PlaybackStatus" ELSE "Metadata"]
             IN  IF running
                 THEN requests' = Append(requests, req) /\ channel' = rest
                 ELSE requests' = requests /\ channel' = Append(rest, ErrorReply(req))

\* The name watch calls its appeared handler.
DeliverAppeared ==
    /\ channel # <<>>
    /\ Head(channel).kind = "appeared"
    /\ _onSpotifyAppeared \/ Ext_onSpotifyAppeared
    /\ Sent(Tail(channel))
    /\ UNCHANGED <<running, playerStatus, playerTrack, fetched>>
    /\ UNCHANGED <<extensionVars, windowVars>>

\* The name watch calls its vanished handler.
DeliverVanished ==
    /\ channel # <<>>
    /\ Head(channel).kind = "vanished"
    /\ _onSpotifyVanished
    /\ Sent(Tail(channel))
    /\ UNCHANGED <<running, playerStatus, playerTrack, fetched>>
    /\ UNCHANGED <<extensionVars, windowVars>>

\* The callback of a Get runs and the coroutine that awaits it resumes.
DeliverReply ==
    /\ channel # <<>>
    /\ LET msg == Head(channel)
       IN  /\ \/ /\ msg.kind = "PlaybackStatus"
                 /\ LET r == IF msg.ok THEN Ok(msg.status) ELSE Failed("")
                    IN  \/ PlaybackStatusReply(msg.task, r)
                        \/ ExtPlaybackStatusReply(msg.task, r)
              \/ /\ msg.kind = "Metadata"
                 /\ LET r == IF msg.ok THEN Ok(msg.metadata) ELSE Failed(EmptyMetadata)
                    IN  \/ MetadataReply(msg.task, r)
                        \/ ExtMetadataReply(msg.task, r)
           /\ fetched' = IF msg.ok THEN fetched \cup {<<msg.task, msg.kind>>}
                         ELSE fetched
    /\ Sent(Tail(channel))
    /\ UNCHANGED <<running, playerStatus, playerTrack>>
    /\ UNCHANGED <<extensionVars, windowVars>>

\* A signal is handed to _onPropertiesChanged through a subscription.
DeliverSignal ==
    /\ channel # <<>>
    /\ LET msg == Head(channel)
       IN  \/ /\ msg.kind = "signal:PlaybackStatus"
              /\ _onPropertiesChanged(Signal(MPRIS_PLAYER_INTERFACE, {"PlaybackStatus"},
                                             msg.status, EmptyMetadata))
           \/ /\ msg.kind = "signal:Metadata"
              /\ _onPropertiesChanged(Signal(MPRIS_PLAYER_INTERFACE, {"Metadata"},
                                             "", msg.metadata))
    /\ channel' = Tail(channel)
    /\ UNCHANGED <<running, playerStatus, playerTrack, requests, fetched>>
    /\ UNCHANGED <<extensionVars, windowVars>>

\* A signal that finds no subscription left is discarded.
DropSignal ==
    /\ channel # <<>>
    /\ Head(channel).kind \in {"signal:PlaybackStatus", "signal:Metadata"}
    /\ Registered = {}
    /\ channel' = Tail(channel)
    /\ UNCHANGED <<running, playerStatus, playerTrack, requests, fetched>>
    /\ UNCHANGED indicatorVars
    /\ UNCHANGED <<extensionVars, windowVars>>

\* The delay of a retry loop is over.
TimerFires(t) ==
    /\ RetryTimer(t)
    /\ Sent(channel)
    /\ UNCHANGED <<running, playerStatus, playerTrack, fetched>>
    /\ UNCHANGED <<extensionVars, windowVars>>

PlayerNext ==
    \/ \E status \in PlaybackStatusValues, track \in PlayerTracks :
          PlayerStarts(status, track)
    \/ PlayerExits
    \/ \E status \in PlaybackStatusValues : PlayerSetsStatus(status)
    \/ \E track \in PlayerTracks : PlayerSetsTrack(track)
    \/ \E ok \in BOOLEAN : PlayerAnswers(ok)
    \/ DeliverAppeared
    \/ DeliverVanished
    \/ DeliverReply
    \/ DeliverSignal
    \/ DropSignal
    \/ \E t \in 1..MaxAppeared : TimerFires(t)

PlayerSpec == Init /\ [][PlayerNext]_vars

(***************************************************************************)
(* The extension object: enable(), disable() and the handler of the        *)
(* settings keys, which create, place and destroy the indicator.           *)
(* GNOME Shell constructs the object once and calls enable() and disable() *)
(* in turn on it. The indicator variables describe the indicator that      *)
(* spotifyIndicator refers to or referred to last; what is left of the one *)
(* before it is kept in `previous`.                                        *)
(***************************************************************************)

\* The extension object constructed and not enabled yet: there is no
\* indicator, and the indicator variables hold what _init will give. The
\* constructor of src/extension.js has connected the handler of 'position'.
ExtensionInit ==
    /\ InitIndicator
    /\ InitPlayer
    /\ enabled = FALSE
    /\ spotifyIndicator = 0
    /\ _positionChangedId = IF variant = "ext" THEN 1 ELSE 0
    /\ _controlsPositionChangedId = 0
    /\ position = "rightmost-left"
    /\ placement = NoPlacement
    /\ alive = 0
    /\ mostAlive = 0
    /\ previous = NoPrevious
    /\ windows = <<>>
    /\ press = NoPress

\* An indicator has been constructed: its callbacks can run.
Constructed == placement # NoPlacement

\* new SpotifyIndicator(...): _init and the name watch of a fresh object.
NewIndicator ==
    /\ visible' = FALSE
    /\ icon_name' = "media-playback-start-symbolic"
    /\ trackLabel' = NoTrackPlaying
    /\ _signalSubscriptionId' = 0
    /\ _spotifyWatcherId' = 1
    /\ destroyed' = FALSE
    /\ nextSubscriptionId' = 1
    /\ unsubscribeCalls' = <<>>
    /\ unwatchCalls' = 0
    /\ tasks' = <<>>
    /\ lastCallback' = "none"
    /\ quiet' = 0
    /\ lastEvent' = NoInput
    /\ calls' = <<>>
    /\ UNCHANGED variant

\* The indicator spotifyIndicator refers to, after its destroy() has run.
AfterDestroy ==
    Dropped(TRUE, 0, 0,
            IF _spotifyWatcherId # 0 THEN FALSE ELSE Watching,
            Registered \ {_signalSubscriptionId},
            [watch |-> _spotifyWatcherId, subscription |-> _signalSubscriptionId])

\* _updateIndicator without the destroy() of the previous indicator.
_updateIndicator_keepsPrevious(length) ==
    /\ previous' = IF spotifyIndicator # 0
                   THEN Dropped(destroyed, _spotifyWatcherId, _signalSubscriptionId,
                                Watching, Registered,
                                [watch |-> _spotifyWatcherId,
                                 subscription |-> _signalSubscriptionId])
                   ELSE previous
    /\ alive' = alive + 1
    /\ mostAlive' = alive + 1
    /\ NewIndicator
    /\ spotifyIndicator' = 1
    /\ placement' = Placed(position', length)

\* _updateIndicator: destroy the indicator there is, construct one, read the
\* key, add the new indicator to the panel box.
_updateIndicator(length) ==
    /\ previous' = IF spotifyIndicator # 0 THEN AfterDestroy ELSE previous
    /\ LET afterDestroy == IF spotifyIndicator # 0 THEN alive - 1 ELSE alive
       IN  /\ alive' = afterDestroy + 1
           /\ mostAlive' = IF alive > afterDestroy + 1 THEN alive ELSE afterDestroy + 1
    /\ NewIndicator
    /\ spotifyIndicator' = 1
    /\ placement' = Placed(position', length)

\* enable() of src/unnamed/part_000: connect the handlers of both keys, then
\* _updateIndicator.
enable(length) ==
    /\ variant = "retry"
    /\ ~enabled
    /\ enabled' = TRUE
    /\ _positionChangedId' = 1
    /\ _controlsPositionChangedId' = 1
    /\ UNCHANGED position
    /\ _updateIndicator(length)

\* enable() of src/extension.js: _updateIndicator only (the handler was
\* connected by the constructor).
Ext_enable(length) ==
    /\ variant = "ext"
    /\ ~enabled
    /\ enabled' = TRUE
    /\ UNCHANGED <<_positionChangedId, _controlsPositionChangedId, position>>
    /\ _updateIndicator(length)

\* disable(): destroy the indicator there is and forget it, disconnect the
\* handlers.
disable ==
    /\ enabled
    /\ enabled' = FALSE
    /\ IF spotifyIndicator # 0
       THEN /\ destroy
            /\ previous' = AfterDestroy
            /\ alive' = alive - 1
       ELSE UNCHANGED <<indicatorVars, previous, alive>>
    /\ mostAlive' = alive
    /\ spotifyIndicator' = 0
    /\ _positionChangedId' = 0
    /\ _controlsPositionChangedId' = 0
    /\ UNCHANGED <<position, placement>>

\* _onSettingsChanged()
_onSettingsChanged(length) == _updateIndicator(length)

\* The 'position' key is written. GSettings calls the connected handler; it
\* documents `changed` as emitted only for a key that was read while a handler
\* was connected, so before the first read the handler may not be called.
PositionChanged(p, length, emitted) ==
    /\ p # position
    /\ position' = p
    /\ IF _positionChangedId # 0 /\ (Constructed \/ emitted)
       THEN _onSettingsChanged(length)
       ELSE UNCHANGED <<indicatorVars, spotifyIndicator, placement, alive,
                        mostAlive, previous>>
    /\ UNCHANGED <<enabled, _positionChangedId, _controlsPositionChangedId>>

\* The 'controls-position' key is written (src/unnamed/part_000 only).
ControlsPositionChanged(length) ==
    /\ _controlsPositionChangedId # 0
    /\ UNCHANGED position
    /\ _onSettingsChanged(length)
    /\ UNCHANGED <<enabled, _positionChangedId, _controlsPositionChangedId>>

\* The lifecycle of the extension, with the name-watch callbacks of the
\* indicator there is and the first Get of each coroutine rejected (the reply
\* that ends the coroutine of src/unnamed/part_000 and takes the one of
\* src/extension.js to its signal_subscribe).
ExtensionNext ==
    \/ \E length \in 0..MaxChildren : enable(length) /\ UNCHANGED <<playerVars, windowVars>>
    \/ \E length \in 0..MaxChildren : Ext_enable(length) /\ UNCHANGED <<playerVars, windowVars>>
    \/ disable /\ UNCHANGED <<playerVars, windowVars>>
    \/ \E p \in PositionValues, length \in 0..MaxChildren, emitted \in BOOLEAN :
          PositionChanged(p, length, emitted) /\ UNCHANGED <<playerVars, windowVars>>
    \/ \E length \in 0..MaxChildren :
          ControlsPositionChanged(length) /\ UNCHANGED <<playerVars, windowVars>>
    \/ Constructed /\ _onSpotifyAppeared /\ UNCHANGED <<playerVars, extensionVars, windowVars>>
    \/ Constructed /\ Ext_onSpotifyAppeared /\ UNCHANGED <<playerVars, extensionVars, windowVars>>
    \/ Constructed /\ \E t \in 1..MaxAppeared :
          PlaybackStatusReply(t, Failed("")) /\ UNCHANGED <<playerVars, extensionVars, windowVars>>
    \/ Constructed /\ \E t \in 1..MaxAppeared :
          ExtPlaybackStatusReply(t, Failed("")) /\ UNCHANGED <<playerVars, extensionVars, windowVars>>
    \/ Constructed /\ _onSpotifyVanished /\ UNCHANGED <<playerVars, extensionVars, windowVars>>

ExtensionSpec == ExtensionInit /\ [][ExtensionNext]_vars

(***************************************************************************)
(* Click to open (src/unnamed/part_000 only): a button press on the        *)
(* indicator brings the window of Spotify to the front.                    *)
(***************************************************************************)

\* Number of window actors global.get_window_actors() returns: 0..MaxWindows.
MaxWindows == 3

\* Clutter.BUTTON_PRIMARY
BUTTON_PRIMARY == 1

\* event.get_button(): the primary, middle and secondary button.
MouseButtons == {1, 2, 3}

\* window.get_wm_class() of a window that has no class.
JsNull == [type |-> "null"]

\* String.prototype.toLowerCase, on the letters the window classes are written
\* with.
ToLowerCase(s) ==
    [k \in DOMAIN s |->
        CASE s[k] = "S" -> "s"
          [] s[k] = "P" -> "p"
          [] s[k] = "O" -> "o"
          [] s[k] = "T" -> "t"
          [] s[k] = "I" -> "i"
          [] s[k] = "F" -> "f"
          [] s[k] = "Y" -> "y"
          [] OTHER -> s[k]]

\* isSpotify: an array with an element, or a string, that is 'spotify' in
\* lower case; false for anything else.
IsSpotify(wmClass) ==
    CASE wmClass.type = "array" ->
            \E k \in DOMAIN wmClass.items :
                ToLowerCase(wmClass.items[k].chars) = <<"s", "p", "o", "t", "i", "f", "y">>
      [] wmClass.type = "string" ->
            ToLowerCase(wmClass.chars) = <<"s", "p", "o", "t", "i", "f", "y">>
      [] OTHER -> FALSE

\* The classes of the windows on the desktop.
WmClasses ==
    {JsString(<<"S", "p", "o", "t", "i", "f", "y">>),
     JsString(<<"s", "p", "o", "t", "i", "f", "y">>),
     JsString(<<"S", "p", "o", "t">>),
     JsNull}

\* A window: its class, whether it is minimized, and which call on it raises
\* (none, unminimize() or activate()).
WindowValues ==
    {w \in [wmClass : WmClasses, minimized : BOOLEAN,
            raises : {"none", "unminimize", "activate"}] :
        /\ w.raises = "unminimize" => w.minimized
        /\ ~IsSpotify(w.wmClass) => (w.minimized /\ w.raises = "none")}

\* global.get_window_actors(): the windows in actor order.
WindowActors ==
    UNION {[1..n -> WindowValues] : n \in 0..MaxWindows}

\* What a call of _activateSpotifyWindow did: the windows (by their place in
\* actor order) whose unminimize() and whose activate() returned, in call
\* order.
Calls(unminimized, activated) ==
    [unminimized |-> unminimized, activated |-> activated]

\* The loop over windowActors from the k-th on. A call that raises inside the
\* try goes to the catch and the loop goes on; activate() returning ends it.
RECURSIVE ActivateFrom(_, _)
ActivateFrom(windowActors, k) ==
    IF k > Len(windowActors) THEN Calls(<<>>, <<>>)
    ELSE LET window == windowActors[k]
             rest == ActivateFrom(windowActors, k + 1)
         IN  IF ~IsSpotify(window.wmClass) THEN rest
             ELSE IF window.minimized /\ window.raises = "unminimize" THEN rest
             ELSE LET unminimized == IF window.minimized THEN <<k>> ELSE <<>>
                  IN  IF window.raises = "activate"
                      THEN Calls(unminimized \o rest.unminimized, rest.activated)
                      ELSE Calls(unminimized, <<k>>)

\* _activateSpotifyWindow()
_activateSpotifyWindow(windowActors) == ActivateFrom(windowActors, 1)

\* _onExtensionClicked without the test of the button.
_onExtensionClicked_anyButton(button) == _activateSpotifyWindow(windows)

\* _onExtensionClicked(actor, event): only the primary button is handled.
_onExtensionClicked(button) ==
    IF button = BUTTON_PRIMARY
    THEN _activateSpotifyWindow(windows)
    ELSE Calls(<<>>, <<>>)

\* The desktop when the indicator is in the panel: any windows in any order.
ClickInit ==
    /\ InitIndicator
    /\ variant = "retry"
    /\ InitPlayer
    /\ InitEnabled
    /\ windows \in WindowActors
    /\ press = NoPress

\* A button is pressed on the indicator, which receives events between show()
\* and hide(): 'button-press-event' calls _onExtensionClicked. The windows
\* whose unminimize() returned are not minimized afterwards.
Pressed(button) ==
    /\ variant = "retry"
    /\ visible
    /\ ~destroyed
    /\ LET done == _onExtensionClicked(button)
       IN  /\ press' = [button |-> button, unminimized |-> done.unminimized,
                        activated |-> done.activated]
           /\ windows' = [k \in DOMAIN windows |->
                             IF \E j \in DOMAIN done.unminimized : done.unminimized[j] = k
                             THEN [windows[k] EXCEPT !.minimized = FALSE]
                             ELSE windows[k]]
    /\ quiet' = 0
    /\ lastEvent' = Event("press", 0, TRUE, {}, button = BUTTON_PRIMARY, FALSE)
    /\ UNCHANGED <<variant, visible, icon_name, trackLabel, _signalSubscriptionId,
                   _spotifyWatcherId, destroyed, nextSubscriptionId,
                   unsubscribeCalls, unwatchCalls, tasks, lastCallback, calls>>

\* The indicator shown and hidden by the name watch, and pressed.
ClickNext ==
    \/ _onSpotifyAppeared /\ UNCHANGED <<playerVars, extensionVars, windowVars>>
    \/ _onSpotifyVanished /\ UNCHANGED <<playerVars, extensionVars, windowVars>>
    \/ \E button \in MouseButtons :
          Pressed(button) /\ UNCHANGED <<playerVars, extensionVars>>

ClickSpec == ClickInit /\ [][ClickNext]_vars

(***************************************************************************)
(* Properties.                                                             *)
(***************************************************************************)

\* The texts `${artist} - ${title}` of the tracks the properties name.
A_T == TrackText(<<"A">>, <<"T">>)

PauseIcon == "media-playback-pause-symbolic"

StartIcon == "media-playback-start-symbolic"

\* A reply (of either Get) resumes coroutine t of the retry revision.
ReplyOf(t) ==
    \/ \E r \in PlaybackStatusReplies : PlaybackStatusReply(t, r)
    \/ \E r \in MetadataReplies : MetadataReply(t, r)

\* A vanished callback has come after the appeared callback that started
\* coroutine t (appeared callbacks never follow one another).
VanishedSince(t) == t < Len(tasks) \/ lastCallback = "vanished"

\* C1 (generation discard): in the retry revision, the reply to a PlaybackStatus
\* or Metadata Get of an appeared event that arrives after a later vanished
\* event changes neither the play/pause icon nor the track label, also when
\* Spotify has appeared again in between.
C1_GenerationDiscard ==
    [][\A t \in DOMAIN tasks :
          (VanishedSince(t) /\ ReplyOf(t))
              => (icon_name' = icon_name /\ trackLabel' = trackLabel)]_vars

\* C2 (presence clears state): whatever icon and label are shown while Spotify
\* is present, a vanished event leaves the indicator hidden with the start icon
\* and the label 'No Track Playing'.
C2_PresenceClearsState ==
    [][(lastCallback = "appeared" /\ _onSpotifyVanished)
          => (/\ ~visible'
              /\ icon_name' = StartIcon
              /\ trackLabel' = NoTrackPlaying)]_vars

\* C3 (subscribe before fetch): in the retry revision every coroutine of
\* _onSpotifyAppeared has armed its subscription before it issued the Get of
\* PlaybackStatus, and issued that Get before any Get of Metadata; the
\* subscription of the t-th appeared event exists from the first fetch on.
C3_SubscribeBeforeFetch ==
    variant = "retry" =>
        \A t \in DOMAIN tasks :
            /\ t \in DOMAIN unsubscribeCalls
            /\ tasks[t] # Ended =>
                  /\ Len(tasks[t].ops) >= 2
                  /\ tasks[t].ops[1] = "signal_subscribe"
                  /\ tasks[t].ops[2] = "Get:PlaybackStatus"
                  /\ \A k \in 3..Len(tasks[t].ops) : tasks[t].ops[k] = "Get:Metadata"

\* A coroutine of the retry revision that has issued its first Metadata Get.
C3_Witness ==
    /\ variant = "retry"
    /\ \E t \in DOMAIN tasks :
          /\ tasks[t].ops = <<"signal_subscribe", "Get:PlaybackStatus", "Get:Metadata">>
          /\ tasks[t].pc = "awaitMetadata"
          /\ _signalSubscriptionId = t

\* C4 (merge, not replace): an accepted PropertiesChanged signal that carries
\* only PlaybackStatus leaves the track label as it was, and one that carries
\* only Metadata leaves the play/pause icon as it was, in both revisions.
C4_MergeNotReplace ==
    [][(lastEvent'.kind = "signal" /\ lastEvent'.accepted)
          => /\ lastEvent'.props = {"PlaybackStatus"} => trackLabel' = trackLabel
             /\ lastEvent'.props = {"Metadata"} => icon_name' = icon_name]_vars

\* A PlaybackStatus-only signal has just switched the icon to pause under a
\* track label that an earlier update had set.
C4_Witness ==
    /\ lastEvent.kind = "signal"
    /\ lastEvent.accepted
    /\ lastEvent.props = {"PlaybackStatus"}
    /\ icon_name = PauseIcon
    /\ trackLabel = A_T

\* The Metadata Gets coroutine t has issued.
MetadataFetches(t) ==
    Cardinality({k \in DOMAIN tasks[t].ops : tasks[t].ops[k] = "Get:Metadata"})

\* C5 (retry termination): for each appeared event of the retry revision,
\* _retryFetchMetadata issues at most 3 Metadata fetches, and the coroutine
\* comes to its end whatever the attempts return (replies and timers arriving).
C5_RetryTermination ==
    /\ [](variant = "retry" => \A t \in DOMAIN tasks : MetadataFetches(t) <= 3)
    /\ \A t \in 1..MaxAppeared :
          (variant = "retry" /\ t \in DOMAIN tasks)
              ~> (t \in DOMAIN tasks /\ tasks[t] = Ended)

\* A retry loop that ended after three attempts none of which was accepted.
C5_Witness ==
    /\ variant = "retry"
    /\ \E t \in DOMAIN tasks :
          /\ tasks[t] = Ended
          /\ lastEvent = Event("retryTimer", 3, TRUE, {}, FALSE, FALSE)
          /\ quiet = t
          /\ trackLabel = NoTrackPlaying

\* The values are of the types MPRIS prescribes where they are present.
WellTyped(m) ==
    /\ m.artist.type \in {"undefined", "array"}
    /\ m.artist.type = "array" =>
          \A k \in DOMAIN m.artist.items : m.artist.items[k].type = "string"
    /\ m.title.type \in {"undefined", "string"}

\* A mapping with a first artist and a title that are strings with more than
\* blanks in them.
HasArtistAndTitle(m) ==
    /\ WellTyped(m)
    /\ m.artist.type = "array"
    /\ m.artist.items # <<>>
    /\ Trim(m.artist.items[1].chars) # <<>>
    /\ m.title.type = "string"
    /\ Trim(m.title.chars) # <<>>

\* 'a - t' for the first artist a and the title t of such a mapping.
FirstArtistAndTitle(m) == TrackText(m.artist.items[1].chars, m.title.chars)

\* Coroutine t of the retry revision resumes from its Metadata Get in this step.
MetadataAttemptEnds(t) ==
    variant = "retry" /\ tasks[t].pc = "awaitMetadata" /\ tasks'[t] # tasks[t]

\* C6 (retry stops on success): when an attempt of _retryFetchMetadata returns
\* metadata with an artist and a title, the label becomes 'artist - title' and
\* the coroutine ends in that step, having issued one Metadata fetch per
\* attempt; a coroutine that has ended never runs again, so no further Metadata
\* fetch is issued.
C6_RetryStopsOnSuccess ==
    [][\A t \in DOMAIN tasks :
          /\ MetadataAttemptEnds(t) =>
                \A r \in MetadataReplies :
                    (r.ok /\ HasArtistAndTitle(r.value) /\ MetadataReply(t, r))
                        => /\ trackLabel' = FirstArtistAndTitle(r.value)
                           /\ MetadataFetches(t) = tasks[t].i + 1
                           /\ lastEvent'.attempt = tasks[t].i + 1
                           /\ tasks'[t] = Ended
          /\ tasks[t] = Ended => tasks'[t] = Ended]_vars

\* Empty, empty, valid: the third attempt of the first appeared event was
\* accepted, after exactly three fetches.
C6_Witness ==
    /\ variant = "retry"
    /\ quiet = 1
    /\ tasks[1] = Ended
    /\ lastEvent.kind = "metadataReply"
    /\ lastEvent.attempt = 3
    /\ lastEvent.accepted
    /\ trackLabel = A_T

\* C7 as stated (retry condition): a fetched mapping that has at least one of
\* artist and title is accepted and ends the retry loop.
C7_AcceptedWithEither ==
    [][\A t \in DOMAIN tasks :
          MetadataAttemptEnds(t) =>
              \A r \in MetadataReplies :
                  (/\ r.ok
                   /\ WellTyped(r.value)
                   /\ r.value.artist.type # "undefined" \/ r.value.title.type # "undefined"
                   /\ MetadataReply(t, r))
                      => tasks'[t] = Ended]_vars

\* The attempt returned a mapping with the xesam:artist key and a non-empty
\* xesam:title, of the prescribed types.
HasBothKeys(m) ==
    /\ WellTyped(m)
    /\ m.artist.type = "array"
    /\ m.title.type = "string"
    /\ m.title.chars # <<>>

\* The replies that succeed or fail as event e records and carry the keys it
\* records: the only ones a step that leaves e can have been given.
RepliesLike(e) ==
    {r \in MetadataReplies : r.ok = e.ok /\ KeysOf(r.value) = e.props}

\* C7 as amended: an attempt is accepted, applied to the label and ends the
\* retry loop exactly when the fetch succeeds and the mapping has both the
\* xesam:artist key and a non-empty xesam:title (strings, as MPRIS prescribes);
\* in every other case (the fetch fails, either of the two is missing, a value
\* is not a string) the label is left alone and the loop goes on to its delay.
C7_AcceptedOnlyWithBoth ==
    [][\A t \in DOMAIN tasks :
          MetadataAttemptEnds(t) =>
              \A r \in RepliesLike(lastEvent') :
                  MetadataReply(t, r) =>
                      IF r.ok /\ HasBothKeys(r.value)
                      THEN /\ tasks'[t] = Ended
                           /\ trackLabel' = _updateTrackInfo(r.value).text
                      ELSE /\ tasks'[t].pc = "sleep"
                           /\ trackLabel' = trackLabel]_vars

\* An attempt that returned a title and no artist was not accepted: the loop is
\* in its delay and the label is still the initial one.
C7_Witness ==
    /\ variant = "retry"
    /\ quiet = 1
    /\ tasks[1].pc = "sleep"
    /\ lastEvent = Event("metadataReply", 1, TRUE, {"xesam:title"}, FALSE, FALSE)
    /\ trackLabel = NoTrackPlaying

\* The artist C8 says is shown for a mapping.
ClaimedArtist(m) ==
    IF /\ m.artist.type = "array"
       /\ m.artist.items # <<>>
       /\ m.artist.items[1].chars # <<>>
    THEN m.artist.items[1].chars
    ELSE UnknownArtist

StartsWith(text, prefix) ==
    Len(text) >= Len(prefix) /\ SubSeq(text, 1, Len(prefix)) = prefix

\* C8 (artist selection): the label _updateTrackInfo writes for a mapping
\* begins with the first element of xesam:artist when that is a non-empty
\* string, and with 'Unknown Artist' when the sequence is empty, the key is
\* missing or the first element is empty; later elements are not used. (Stated
\* for mappings of the prescribed types whose first artist is not blanks only.)
C8_ArtistSelection ==
    [][(lastEvent'.kind = "signal" /\ "Metadata" \in lastEvent'.props) =>
          \A sig \in Signals :
              (/\ "Metadata" \in sig.props
               /\ WellTyped(sig.Metadata)
               /\ ClaimedArtist(sig.Metadata) # <<" ">>
               /\ _onPropertiesChanged(sig))
                  => StartsWith(trackLabel', ClaimedArtist(sig.Metadata) \o <<" ", "-", " ">>)]_vars

\* The icon C9 expects for a playback status.
IconFor(s) == IF s = "Playing" THEN PauseIcon ELSE StartIcon

\* C9 (initial fetch scenario): while only the coroutine of the last appeared
\* event has run since that event, the indicator stays visible; the fetched
\* PlaybackStatus s decides the icon (pause iff s = 'Playing': at once in the
\* retry revision, where no later step of the coroutine touches the icon, and
\* together with the label in src/extension.js), and a fetched mapping with
\* first artist a and title t makes the label 'a - t'.
C9_InitialFetch ==
    [][\A t \in DOMAIN tasks :
          (quiet = t /\ tasks'[t] # tasks[t]) =>
              /\ visible'
              /\ \A r \in PlaybackStatusReplies :
                    /\ (r.ok /\ PlaybackStatusReply(t, r)) => icon_name' = IconFor(r.value)
                    /\ (r.ok /\ ExtPlaybackStatusReply(t, r))
                          => tasks'[t].playbackStatus = r.value
              /\ (variant = "retry" /\ tasks[t].pc # "awaitPlaybackStatus")
                    => icon_name' = icon_name
              /\ \A r \in MetadataReplies :
                    (r.ok /\ HasArtistAndTitle(r.value)
                          /\ (MetadataReply(t, r) \/ ExtMetadataReply(t, r)))
                        => /\ trackLabel' = FirstArtistAndTitle(r.value)
                           /\ variant = "ext"
                                 => icon_name' = IconFor(tasks[t].playbackStatus)]_vars

\* Appeared, PlaybackStatus 'Playing', Metadata (['A', 'B'], 'T'), nothing else.
C9_Witness ==
    /\ quiet = 1
    /\ tasks[1] = Ended
    /\ lastEvent.kind = "metadataReply"
    /\ lastEvent.attempt = 1
    /\ lastEvent.accepted
    /\ visible
    /\ icon_name = PauseIcon
    /\ trackLabel = A_T

\* C10 (idempotent teardown): no watch id or subscription id is released more
\* than once; _onSpotifyVanished and destroy() leave the handles null, and when
\* they find them null already (a second call in a row) they issue no
\* signal_unsubscribe and no unwatch_name.
C10_IdempotentTeardown ==
    /\ [](/\ unwatchCalls <= 1
          /\ \A id \in DOMAIN unsubscribeCalls : unsubscribeCalls[id] <= 1)
    /\ [][/\ _onSpotifyVanished =>
                /\ _signalSubscriptionId' = 0
                /\ _signalSubscriptionId = 0 => UNCHANGED <<unsubscribeCalls, unwatchCalls>>
          /\ destroy =>
                /\ _signalSubscriptionId' = 0 /\ _spotifyWatcherId' = 0
                /\ _signalSubscriptionId = 0 => UNCHANGED unsubscribeCalls
                /\ _spotifyWatcherId = 0 => UNCHANGED unwatchCalls]_vars

\* A second destroy() found both handles null after the first had released the
\* watch and a subscription.
C10_Witness ==
    /\ lastEvent.kind = "destroy"
    /\ ~lastEvent.accepted
    /\ destroyed
    /\ unwatchCalls = 1
    /\ \E id \in DOMAIN unsubscribeCalls : unsubscribeCalls[id] = 1

\* C11 (dynamic visibility): the indicator is visible only if the last callback
\* of the name watch is the appeared one; it is hidden at construction and after
\* every vanished callback, so no label is on display while Spotify is absent.
C11_DynamicVisibility ==
    /\ [](visible => lastCallback = "appeared")
    /\ [][_onSpotifyVanished => ~visible']_vars

\* Hidden by a vanished callback while the label still names a track.
C11_Witness ==
    /\ lastEvent.kind = "vanished"
    /\ lastCallback = "vanished"
    /\ ~visible
    /\ trackLabel = A_T

\* C12 (re-appearance invalidates old data): an appeared callback that follows
\* a vanished one puts the indicator on display with the start icon and the
\* label 'No Track Playing', and these stay until a reply to a Get of the new
\* coroutine or an accepted signal arrives.
C12_ReappearShowsDefaults ==
    [][(lastCallback = "vanished" /\ (_onSpotifyAppeared \/ Ext_onSpotifyAppeared))
          => (/\ visible'
              /\ icon_name' = StartIcon
              /\ trackLabel' = NoTrackPlaying)]_vars

\* C13 (fire-and-forget commands): _sendMPRISCommand returns with its call in
\* flight, and neither that step nor the later callback of the call, whether
\* call_finish returns or raises, changes the label, the icon, the visibility,
\* the subscription handle or its registration, or any coroutine of
\* _onSpotifyAppeared (a pending fetch or retry delay).
C13_FireAndForget ==
    [][/\ (\E button \in Buttons : Clicked(button)) =>
              /\ calls' # <<>>
              /\ calls'[Len(calls')].method \in lastEvent'.props
       /\ lastEvent'.kind \in {"command", "commandReply"} =>
              UNCHANGED <<trackLabel, icon_name, visible, _signalSubscriptionId,
                          nextSubscriptionId, unsubscribeCalls, _spotifyWatcherId,
                          unwatchCalls, tasks, destroyed>>]_vars

\* The PlayPause call has failed while the pause icon and a track are shown,
\* the subscription is held and a retry loop waits for its next attempt.
C13_Witness ==
    /\ lastEvent = Event("commandReply", 0, FALSE, {"PlayPause"}, FALSE, FALSE)
    /\ calls = <<>>
    /\ icon_name = PauseIcon
    /\ trackLabel = A_T
    /\ visible
    /\ _signalSubscriptionId # 0
    /\ \E t \in DOMAIN tasks : tasks[t].pc = "sleep"

\* The method C14 names for each button.
MethodOf(button) ==
    CASE button = "prevButton" -> "Previous"
      [] button = "playPauseButton" -> "PlayPause"
      [] button = "nextButton" -> "Next"

\* C14 (no command retry): a click on a button puts exactly one method call on
\* the bus, of the Player interface and named after the button; the callback of
\* a call, successful or failed, ends that call and issues none; and no other
\* step of the program issues a call.
C14_NoCommandRetry ==
    [][/\ \A button \in Buttons :
              Clicked(button) =>
                  calls' = Append(calls, [interface |-> "org.mpris.MediaPlayer2.Player",
                                          method |-> MethodOf(button)])
       /\ lastEvent'.kind = "commandReply" => Len(calls') = Len(calls) - 1
       /\ lastEvent'.kind \notin {"command", "commandReply"} => calls' = calls]_vars

\* The Next call has failed and no call is in flight afterwards.
C14_Witness ==
    /\ lastEvent = Event("commandReply", 0, FALSE, {"Next"}, FALSE, FALSE)
    /\ calls = <<>>

\* C15 (interface filter): a PropertiesChanged signal of an interface other
\* than org.mpris.MediaPlayer2.Player changes neither the icon nor the label,
\* also when it carries PlaybackStatus and Metadata.
C15_InterfaceFilter ==
    [][(lastEvent'.kind = "signal" /\ ~lastEvent'.accepted) =>
          \A sig \in Signals :
              (sig.iface # "org.mpris.MediaPlayer2.Player" /\ _onPropertiesChanged(sig))
                  => (icon_name' = icon_name /\ trackLabel' = trackLabel)]_vars

\* A signal of the root interface with PlaybackStatus 'Playing' and a full
\* track has just been delivered to an indicator that shows 'Paused' and a
\* title without artist: both are still shown.
C15_Witness ==
    /\ lastEvent = Event("signal", 0, TRUE, {}, FALSE, FALSE)
    /\ Registered # {}
    /\ \E sig \in Signals :
          /\ sig.iface = MPRIS_ROOT_INTERFACE
          /\ sig.props = {"PlaybackStatus", "Metadata"}
          /\ _updatePlayPauseIcon(sig.PlaybackStatus) # icon_name
    /\ icon_name = StartIcon
    /\ trackLabel = TrackText(UnknownArtist, <<"T">>)

\* C16 (subscription only while present): in the revision of src/extension.js
\* no PropertiesChanged subscription is registered while the last callback of
\* the name watch is the vanished one.
C16_SubscribedOnlyWhilePresent ==
    (variant = "ext" /\ lastCallback = "vanished") => Registered = {}

\* C17 (signal decode failure is local): an accepted PropertiesChanged signal
\* never makes _onPropertiesChanged raise, whatever the shape of its values,
\* and when it carries both properties its PlaybackStatus is applied to the
\* icon also when its Metadata cannot be applied.
C17_DecodeFailureIsLocal ==
    [][(lastEvent'.kind = "signal" /\ lastEvent'.accepted) =>
          /\ ~lastEvent'.threw
          /\ \A sig \in Signals :
                (/\ sig.iface = "org.mpris.MediaPlayer2.Player"
                 /\ sig.props = {"PlaybackStatus", "Metadata"}
                 /\ _onPropertiesChanged(sig))
                    => icon_name' = IconFor(sig.PlaybackStatus)]_vars

\* The Gets of PlaybackStatus coroutine t has issued.
PlaybackStatusFetches(t) ==
    Cardinality({k \in DOMAIN tasks[t].ops : tasks[t].ops[k] = "Get:PlaybackStatus"})

\* What a failed fetch must leave alone.
DisplayAndSubscription ==
    <<icon_name, trackLabel, visible, _signalSubscriptionId, nextSubscriptionId,
      unsubscribeCalls>>

\* C18 (fetch failure is recovered locally): in the retry revision a rejected
\* Get of PlaybackStatus ends the coroutine in its catch, and a rejected Get of
\* Metadata, or a fetched mapping _updateTrackInfo raises on, is caught in the
\* retry loop, which goes on to its delay; none of them changes the icon, the
\* label, the visibility or the subscription. A coroutine issues the Get of
\* PlaybackStatus once, and one that has ended issues nothing more.
C18_FetchFailureIsLocal ==
    /\ [](variant = "retry" =>
             \A t \in DOMAIN tasks :
                 tasks[t] # Ended => PlaybackStatusFetches(t) = 1)
    /\ [][\A t \in DOMAIN tasks :
             /\ (variant = "retry" /\ tasks'[t] # tasks[t]) =>
                   /\ PlaybackStatusReply(t, Failed("")) =>
                         /\ UNCHANGED DisplayAndSubscription
                         /\ tasks'[t] = Ended
                   /\ \A r \in MetadataReplies :
                         (/\ ~r.ok \/ _updateTrackInfo(r.value).threw
                          /\ MetadataReply(t, r))
                             => /\ UNCHANGED DisplayAndSubscription
                                /\ tasks'[t].pc = "sleep"
             /\ (variant = "retry" /\ tasks[t] = Ended) => tasks'[t] = Ended]_vars

\* Appeared, then the Get of PlaybackStatus was rejected (the one way the first
\* coroutine ends with no input left behind while only its steps ran): the
\* indicator is on display with its initial icon and label and the
\* subscription of this appeared event.
C18_Witness ==
    /\ variant = "retry"
    /\ quiet = 1
    /\ tasks = <<Ended>>
    /\ lastEvent = NoInput
    /\ visible
    /\ icon_name = StartIcon
    /\ trackLabel = NoTrackPlaying
    /\ _signalSubscriptionId = 1
    /\ Registered = {1}

\* C19 (unsubscribe on a lost connection): when the bus call of
\* _onSpotifyVanished or destroy() raises while a subscription is held, the
\* handler does not raise and _signalSubscriptionId is null afterwards.
C19_UnsubscribeFailureSwallowed ==
    [][(_signalSubscriptionId # 0 /\ (VanishedOnClosedBus \/ DestroyOnClosedBus))
          => (~lastEvent'.threw /\ _signalSubscriptionId' = 0)]_vars

\* C20 (teardown releases everything): in the retry revision, once destroy()
\* has run, whatever the state it was called in, the name watch is not
\* registered and no PropertiesChanged subscription is, in that state and in
\* every later one.
C20_TeardownReleasesEverything ==
    (variant = "retry" /\ destroyed) =>
        /\ ~Watching
        /\ _spotifyWatcherId = 0
        /\ Registered = {}
        /\ _signalSubscriptionId = 0

\* destroy() was called while the Get of Metadata of the second appeared event
\* was in flight; its reply has arrived since, and both subscriptions and the
\* watch stay released.
C20_Witness ==
    /\ variant = "retry"
    /\ destroyed
    /\ lastEvent.kind = "metadataReply"
    /\ Len(tasks) = 2
    /\ unsubscribeCalls = <<1, 1>>
    /\ unwatchCalls = 1

\* C23 (Metadata is fetched on every appeared event): when the Get of
\* PlaybackStatus of a coroutine is rejected, the coroutine still goes on to
\* issue its Get of Metadata, in both revisions.
C23_MetadataFetchedAfterStatusFailure ==
    [][\A t \in DOMAIN tasks :
          (PlaybackStatusReply(t, Failed("")) \/ ExtPlaybackStatusReply(t, Failed("")))
              => /\ tasks'[t].pc = "awaitMetadata"
                 /\ tasks'[t].ops = Append(tasks[t].ops, "Get:Metadata")]_vars

\* C24 (field-by-field start-up of src/extension.js): when the Get of Metadata
\* is rejected after the Get of PlaybackStatus has returned s, the icon is the
\* one of s after that step.
C24_StatusAppliedWithoutMetadata ==
    [][\A t \in DOMAIN tasks :
          ExtMetadataReply(t, Failed(EmptyMetadata))
              => icon_name' = IconFor(tasks[t].playbackStatus)]_vars

IsPartial(m) ==
    /\ m.artist.type = "undefined" \/ m.title.type = "undefined"
    /\ m.artist.type = "undefined" \/ HasArtistAndTitle(Metadata(m.artist, JsString(<<"T">>)))
    /\ m.title.type = "undefined" \/ HasArtistAndTitle(Metadata(TwoArtists, m.title))

\* The label C26 expects for a partial mapping.
PartialText(m) ==
    TrackText(IF m.artist.type = "undefined" THEN UnknownArtist
              ELSE m.artist.items[1].chars,
              IF m.title.type = "undefined" THEN UnknownTitle ELSE m.title.chars)

OtherStatusValues == {"", "playing", "PLAYING", "Playing ", "Play"}

\* This step applies a PlaybackStatus: the first await of the retry revision
\* returns one, the second await of src/extension.js returns (its stored status
\* is applied with the mapping), or an accepted signal carries one.
StatusApplied ==
    \/ /\ variant = "retry"
       /\ \E t \in DOMAIN tasks :
             tasks[t].pc = "awaitPlaybackStatus" /\ tasks'[t].pc = "awaitMetadata"
    \/ variant = "ext" /\ lastEvent'.kind = "metadataReply" /\ lastEvent'.ok
    \/ lastEvent'.kind = "signal" /\ "PlaybackStatus" \in lastEvent'.props

IssuesGet(t) ==
    /\ tasks'[t] # tasks[t]
    /\ tasks'[t].pc \in {"awaitPlaybackStatus", "awaitMetadata"}

\* C28 (no fetch while absent): in the retry revision no coroutine issues a
\* Get of PlaybackStatus or Metadata in a state whose last name-watch callback
\* is the vanished one.
C28_NoFetchWhileAbsent ==
    [][(variant = "retry" /\ lastCallback = "vanished")
          => \A t \in DOMAIN tasks : ~IssuesGet(t)]_vars

\* The coroutines of the retry revision that are inside _retryFetchMetadata.
ActiveRetryLoops ==
    {t \in DOMAIN tasks : tasks[t].pc \in {"awaitMetadata", "sleep"}}

\* C29 (one retry loop at a time): in the retry revision at most one coroutine
\* is inside _retryFetchMetadata, so at most one Get of Metadata is in flight.
C29_SingleRetryLoop ==
    variant = "retry" => Cardinality(ActiveRetryLoops) <= 1

\* C30 (nothing runs after teardown): once destroy() has run, no step changes
\* the label or the icon and no coroutine issues a Get.
C30_NothingAfterTeardown ==
    [][destroyed
          => /\ UNCHANGED <<trackLabel, icon_name>>
             /\ \A t \in DOMAIN tasks : ~IssuesGet(t)]_vars

\* Spotify has been running since the last appeared callback and nothing it
\* sent or has to answer is outstanding.
PresentAndDelivered ==
    /\ running
    /\ lastCallback = "appeared"
    /\ channel = <<>>
    /\ requests = <<>>

\* C21 (status convergence): in the retry revision, with messages delivered in
\* the order they were sent, whenever Spotify is present, the Get of
\* PlaybackStatus of the last appeared event has returned a value and nothing
\* is outstanding, the icon is the one of the player's PlaybackStatus.
C21_StatusConvergence ==
    (/\ variant = "retry"
     /\ PresentAndDelivered
     /\ <<Len(tasks), "PlaybackStatus">> \in fetched)
        => icon_name = IconFor(playerStatus)

\* Playback has started after the Get was answered: the signal was delivered
\* last and the pause icon is shown.
C21_Witness ==
    /\ variant = "retry"
    /\ PresentAndDelivered
    /\ <<1, "PlaybackStatus">> \in fetched
    /\ Len(tasks) = 1
    /\ lastEvent = Event("signal", 0, TRUE, {"PlaybackStatus"}, TRUE, FALSE)
    /\ playerStatus = "Playing"
    /\ icon_name = PauseIcon

\* C22 (no update lost at start-up): in src/extension.js, with messages
\* delivered in the order they were sent, whenever Spotify is present, both
\* Gets of the last appeared event have returned a value, its coroutine has
\* ended and nothing is outstanding, icon and label are those of the player's
\* PlaybackStatus and track.
C22_NoUpdateLostAtStartup ==
    (/\ variant = "ext"
     /\ PresentAndDelivered
     /\ tasks[Len(tasks)] = Ended
     /\ <<Len(tasks), "PlaybackStatus">> \in fetched
     /\ <<Len(tasks), "Metadata">> \in fetched)
        => /\ icon_name = IconFor(playerStatus)
           /\ trackLabel = Ext_updateTrackInfo(playerTrack).text

\* C31: in the retry revision, with appeared and vanished callbacks
\* alternating, at most one PropertiesChanged subscription of the indicator is
\* registered, and _signalSubscriptionId is non-null exactly when one is, and
\* is then its id (so no id is overwritten while still registered).
C31_NoSubscriptionLeak ==
    variant = "retry" =>
        /\ Cardinality(Registered) <= 1
        /\ (_signalSubscriptionId # 0) <=> (Registered # {})
        /\ _signalSubscriptionId # 0 => Registered = {_signalSubscriptionId}

\* Spotify has appeared a second time: the first subscription was released by
\* the vanished callback and the second one is the one held.
C31_Witness ==
    /\ variant = "retry"
    /\ lastCallback = "appeared"
    /\ nextSubscriptionId = 3
    /\ unsubscribeCalls[1] = 1
    /\ Registered = {2}
    /\ _signalSubscriptionId = 2

\* C32: after any sequence of enable, disable and settings changes at most one
\* SpotifyIndicator is not destroyed, also while a handler runs, and the
\* indicator the extension let go of was destroyed first: its handles are
\* null, its name watch and the subscription it held are released.
C32_SingleIndicator ==
    /\ alive <= 1
    /\ mostAlive <= 1
    /\ previous.dropped =>
          /\ previous.destroyed
          /\ previous._spotifyWatcherId = 0
          /\ previous._signalSubscriptionId = 0
          /\ ~previous.watching
          /\ previous.held.subscription \notin previous.registered

\* The extension of src/extension.js was never disabled, and a settings change
\* has replaced an indicator that held a subscription by the one there is now.
C32_Witness ==
    /\ variant = "ext"
    /\ enabled
    /\ _positionChangedId = 1
    /\ previous.dropped
    /\ previous.held.subscription # 0
    /\ previous.held.watch # 0
    /\ spotifyIndicator = 1
    /\ ~destroyed
    /\ alive = 1

\* C33: in src/extension.js, while the extension is not enabled (before the
\* first enable() and after each disable()) the module-level spotifyIndicator
\* is null, also when the 'position' key changes then.
C33_NoIndicatorWhileDisabled ==
    (variant = "ext" /\ ~enabled) => spotifyIndicator = 0

\* C34: in src/extension.js, whenever the extension is enabled (also after a
\* disable() and a second enable() on the same object), a change of the
\* 'position' key has the indicator recreated and placed by the new value.
C34_PositionChangeFollowed ==
    [][(variant = "ext" /\ enabled /\ position' # position)
          => /\ spotifyIndicator' = 1
             /\ placement'.setting = position'
             /\ previous' = AfterDestroy]_vars

\* C35: for each of the nine position values and every number n >= 0 of
\* children in the selected panel box, the offset passed to addToStatusArea
\* of an enabled extension satisfies 0 <= offset <= n.
C35_OffsetInRange ==
    (enabled /\ Constructed /\ placement.setting \in validPositions)
        => /\ 0 <= placement.offset
           /\ placement.offset <= placement.length

ClassIsSpotify(wmClass) ==
    /\ wmClass.type = "string"
    /\ Len(wmClass.chars) = 7
    /\ \A k \in 1..7 :
          wmClass.chars[k] \in {<<"s", "p", "o", "t", "i", "f", "y">>[k],
                                <<"S", "P", "O", "T", "I", "F", "Y">>[k]}

\* The windows of Spotify whose activation does not fail.
Activatable(ws) ==
    {k \in DOMAIN ws : ClassIsSpotify(ws[k].wmClass) /\ ws[k].raises = "none"}

FirstOf(S) == CHOOSE k \in S : \A j \in S : k <= j

====
